---- MODULE Spec2Model ----
(***************************************************************************)
(* A model of the debate coordination protocol of eliza-starter:           *)
(*   - DebateOrchestrator (src/src/DebateOrchestrator.ts): initialize,     *)
(*     startDebate's round loop, retryWithBackoff, stopDebate;             *)
(*   - SharedWebSocket (src/src/clients/shared-websocket.ts): connect,     *)
(*     handleDisconnect, close and their timers;                           *)
(*   - PVPVAIIntegration and AgentClient (src/unnamed/part_000): the rate  *)
(*     limiter, inbound AGENT_MESSAGE handling, the message context, the   *)
(*     effect registries, the room session and the POST retry loop, the    *)
(*     inbound dispatch and processSystemMessage;                          *)
(*   - signMessage (src/unnamed/part_000).                                 *)
(* Every component has its own specification over its own variables; the   *)
(* variables of the other components stay as Init leaves them. The inbound *)
(* dispatch and processSystemMessage are specified together with the       *)
(* effect registry, the AGENT_MESSAGE handler and the message context they *)
(* use.                                                                    *)
(*                                                                         *)
(* JavaScript runs one callback at a time: an action is the code that runs *)
(* between two awaits (or from a timer or socket event to the next await), *)
(* so other callers interleave exactly at the awaits.                      *)
(***************************************************************************)
EXTENDS Integers, Sequences, FiniteSets, TLC

\* ------------------------------------------------------------------------
\* Bounds of the model
\* ------------------------------------------------------------------------

\* Debaters handed to the constructor (agents 1..NAgents; 0 is the Moderator).
NAgents == 3
\* Sockets one channel creates (connect() calls) before the model stops it.
MaxSockets == 3
\* Concurrent callers of one participant's processMessage, and the clock ticks
\* (of a third of MIN_API_INTERVAL) the rate limiter is watched for.
NCallers == 2
MaxTicks == 6
\* Deliveries of one inbound AGENT_MESSAGE to a participant.
MaxDeliveries == 2
\* Entries pushed into a participant's message contexts.
MaxPushes == 10
\* stopDebate() calls made on one orchestrator.
MaxStops == 2
\* setRoomAndRound calls made on one AgentClient, and POST requests it makes.
MaxSetups == 2
MaxPosts == 5
\* processSystemMessage calls made on one AgentClient.
MaxSystem == 2

\* ------------------------------------------------------------------------
\* DebateOrchestrator: configuration (DebateOrchestrator.ts:27-39, 255)
\* ------------------------------------------------------------------------

minResponseDelay == 15000
maxResponseDelay == 20000
turnDelay == 5000
gmThinkingTime == 10000
roundBreak == 30000
retryDelay == 10000
maxRetries == 3
ORCH_MIN_API_INTERVAL == 10000
verifyMaxRetries == 10
verifyRetryDelay == 2000

GM == 0
\* The runtimes handed to the constructor: Debater 1, the Moderator, then the
\* other Debaters.
Runtimes == [k \in 1..(NAgents + 1) |-> IF k = 1 THEN 1 ELSE IF k = 2 THEN GM ELSE k - 1]
\* The constructor: this.gameMaster is the GM runtime, this.agents the others
\* in the order given.
agents == SelectSeq(Runtimes, LAMBDA r : r # GM)
\* Mutant of speakerAt: the for loop walks this.agents from its end.
speakerAtReversed(i) == agents[Len(agents) + 1 - i]
\* this.agents[i] of the round loop (the loop counts from 0, the model from 1).
speakerAt(i) == agents[i]

\* Room ids a caller passes to initialize (0 is falsy, as undefined is), and
\* round ids the round resolution returns (getActiveRound rejects a falsy id).
RoomIds == {0, 42}
RoundIds == {7}

\* Math.floor(Math.random() * (max - min) + min): every value of [min, max).
RandomDelays == {minResponseDelay, maxResponseDelay - 1}

VARIABLES
  roomId,            \* DebateOrchestrator.roomId (0: undefined)
  roundId,           \* DebateOrchestrator.roundId (0: undefined)
  isDebating,        \* DebateOrchestrator.isDebating
  isRunning,         \* DebateOrchestrator.isRunning
  phase,             \* DebateOrchestrator.state.phase
  sinceLastApiCall,  \* Date.now() - this.lastApiCall, saturated at MIN_API_INTERVAL
  sd,                \* the startDebate() call: where it is suspended, and its locals
  ini,               \* the initialize() call: where it is suspended, and its locals
  connected,         \* the participants whose channel isConnected(), watched from
                     \*   the call of initialize() until it returns or raises
  turns,             \* observed: the participants whose turn started in this iteration
  sends,             \* observed: the participants that emitted in this iteration
  skipped,           \* observed: a turn of this iteration ended without an emission
  everInitOk,        \* observed: some initialize() call has completed successfully
  stopAge,           \* observed: 0 no stop mid-round; 1 stopped, the delay in flight
                     \*   has not elapsed; 2 stopped and a delay has elapsed since
  lateEmit,          \* observed: a turn emitted while stopAge was 2
  failure,           \* observed: what failed in the turn since its last sleep ended:
                     \*   none, processMessage or sendAIMessage (generateText raised
                     \*   in that call), rateLimited or error (the client's send raised)
  closedClients,     \* observed: the participants whose client had close() called
  stopCalls,         \* observed: stopDebate() calls made
  closingSent,       \* observed: closing broadcasts stopDebate handed to the GM client
  closingPending,    \* closing broadcasts whose promise has not settled
  closingLogged      \* observed: the catch handler of a closing broadcast logged an error

VARIABLES
  ws,                      \* SharedWebSocket.ws: [id, st]; st is none (null), connecting,
                           \*   open, closing (close() called, no 'close' event yet) or closed
  heartbeatInterval,       \* seconds to the next heartbeat tick, -1: no interval running
  reconnectAttempt,        \* SharedWebSocket.reconnectAttempt
  isActive,                \* SharedWebSocket.isActive
  sinceHeartbeatResponse,  \* Date.now() - lastHeartbeatResponse in seconds, saturated
  reconnectTimer,          \* seconds until the reconnect timer fires, -1: none pending
  connectTimeouts,         \* the pending 5s connection timeouts, oldest first: [id, rem,
                           \*   promise], promise: the attempt's promise is pending or rejected
  onCloseTimers,           \* the pending 5s timers of AgentClient's onClose handler
  sockCount,               \* sockets created so far (the newest socket's id)
  clientIsActive,          \* AgentClient.isActive
  schedLog,                \* observed: the delays handleDisconnect scheduled since the
                           \*   last successful open, in ms
  firstEnvelope,           \* observed: the first envelope written to the current socket
  heartbeatSent,           \* observed: a HEARTBEAT has been written to the current socket
  lastOp                   \* observed: what the step just taken did: the envelopes it
                           \*   wrote to the socket, and for a connection timeout the
                           \*   attempt it belongs to, the state of the attempt's promise
                           \*   before it and whether it rejected with a timeout error

wsVars == <<ws, heartbeatInterval, reconnectAttempt, isActive, sinceHeartbeatResponse,
            reconnectTimer, connectTimeouts, onCloseTimers, sockCount, clientIsActive,
            schedLog, firstEnvelope, heartbeatSent, lastOp>>

VARIABLES
  now,                \* Date.now(), ms
  lastApiCall,        \* PVPVAIIntegration.lastApiCall
  callers,            \* the processMessage calls of one participant: [pc, wakeAt]
  genStarts           \* observed: the times at which generateText was called

rateVars == <<now, lastApiCall, callers, genStarts>>

VARIABLES
  processedMessages,  \* AgentClient.processedMessages
  handlers,           \* handleAgentMessage calls in flight: message -> their await points
  delivered,          \* observed: deliveries of each message
  genCalls,           \* observed: integration.processMessage calls made for each message
  replies,            \* observed: replies sent for each message
  outcome             \* observed: what became of the message's first delivery

dedupVars == <<processedMessages, handlers, delivered, genCalls, replies, outcome>>

VARIABLES
  messageContext,     \* PVPVAIIntegration.messageContext
  clientContext,      \* AgentClient.messageContext
  pushedIntegration,  \* observed: every entry pushed into messageContext, in order
  pushedClient        \* observed: every entry pushed into clientContext, in order

ctxVars == <<messageContext, clientContext, pushedIntegration, pushedClient>>

VARIABLES
  activePvPEffects,   \* AgentClient.activePvPEffects: a map from effect type
  integrationEffects  \* PVPVAIIntegration.activePvPEffects: a map from targetId

fxVars == <<activePvPEffects, integrationEffects>>

VARIABLES
  clRoomId,           \* AgentClient.roomId (0: undefined)
  clRoundId,          \* AgentClient.roundId (0: undefined)
  sr,                 \* the setRoomAndRound call: [pc, resolved] and, observed,
                      \*   roundBefore: this.roundId when it was called
  channel,            \* the client's channel: connect() calls made, its config.roomId,
                      \*   and whether it has sent SUBSCRIBE_ROOM
  post,               \* the sendAIMessage call: [pc, retries, roomId, roundId] and,
                      \*   observed, attempts: the POST requests it has made
  setups,             \* observed: setRoomAndRound calls made
  postCount,          \* observed: POST requests made
  posted,             \* observed: the (roomId, roundId) of the envelopes posted
  resolved,           \* observed: the round ids getActiveRound has returned
  refused             \* observed: a sendAIMessage call raised 'not initialized'

clientVars == <<clRoomId, clRoundId, sr, channel, post, setups, postCount, posted, resolved,
                refused>>

VARIABLES
  signIn,             \* the payloads handed to signMessage: one key/value set assembled
                      \*   in two key orders
  signOut             \* what the two signMessage calls returned

signVars == <<signIn, signOut>>

VARIABLES
  inb,                \* the handleWebSocketMessage call in flight: [pc, messageType, entry]
  inbLast             \* observed: what the last 'message' event was and which handler
                      \*   took it (the channel's handleHeartbeat or the client's
                      \*   handleWebSocketMessage)

inbVars == <<inb, inbLast>>

VARIABLES
  sysOut,             \* the last processSystemMessage call: its message, what it
                      \*   returned, whether its catch block ran, the text handed on
  sysCount            \* processSystemMessage calls made

sysVars == <<sysOut, sysCount>>

stopVars == <<closedClients, stopCalls, closingSent, closingPending, closingLogged>>

orchVars == <<roomId, roundId, isDebating, isRunning, phase, sinceLastApiCall, sd, ini,
              connected,
              turns, sends, skipped, everInitOk, stopAge, lateEmit, failure, stopVars>>

vars == <<orchVars, wsVars, rateVars, dedupVars, ctxVars, fxVars, clientVars, signVars,
          inbVars, sysVars>>

\* What an action of one component leaves alone: the other components.
notOrch == <<wsVars, rateVars, dedupVars, ctxVars, fxVars, clientVars, signVars,
              inbVars, sysVars>>
notWS == <<orchVars, rateVars, dedupVars, ctxVars, fxVars, clientVars, signVars,
            inbVars, sysVars>>
notRate == <<orchVars, wsVars, dedupVars, ctxVars, fxVars, clientVars, signVars,
              inbVars, sysVars>>
notDedup == <<orchVars, wsVars, rateVars, ctxVars, fxVars, clientVars, signVars,
               inbVars, sysVars>>
notCtx == <<orchVars, wsVars, rateVars, dedupVars, fxVars, clientVars, signVars,
             inbVars, sysVars>>
notFx == <<orchVars, wsVars, rateVars, dedupVars, ctxVars, clientVars, signVars,
            inbVars, sysVars>>
notClient == <<orchVars, wsVars, rateVars, dedupVars, ctxVars, fxVars, signVars,
                inbVars, sysVars>>
notSign == <<orchVars, wsVars, rateVars, dedupVars, ctxVars, fxVars, clientVars,
              inbVars, sysVars>>
notInb == <<orchVars, rateVars, dedupVars, ctxVars, fxVars, clientVars, signVars, sysVars>>
notSys == <<orchVars, wsVars, rateVars, dedupVars, fxVars, clientVars, signVars, inbVars>>


\* ------------------------------------------------------------------------
\* DebateOrchestrator: helpers
\* ------------------------------------------------------------------------

Min(a, b) == IF a < b THEN a ELSE b
Max(a, b) == IF a > b THEN a ELSE b

\* The frame of a call that is not running.
IdleFrame == [pc |-> "idle", i |-> 0, attempt |-> 0, cont |-> "none", ms |-> 0, opened |-> 0]
IdleInit == [pc |-> "idle", k |-> 0, retries |-> 0, ms |-> 0]

\* sleep(ms): the call is suspended on a timer and resumes at `cont`.
sleep(f, ms, cont) == [f EXCEPT !.pc = "sleep", !.ms = ms, !.cont = cont]

\* waitForRateLimit's waitTime, from timeSinceLastCall.
waitTime(since) ==
  IF since < ORCH_MIN_API_INTERVAL THEN ORCH_MIN_API_INTERVAL - since ELSE 0

\* The operation handed to retryWithBackoff starts: handleGMTurn's calls
\* client.sendAIMessage (whose first await is processMessage), handleAgentTurn's
\* calls client.processMessage first.
startOperation(f) ==
  [f EXCEPT !.pc = IF f.i = GM THEN "gen2" ELSE "gen1", !.ms = 0, !.cont = "none"]

\* The participant whose turn frame f is in.
who(f) == IF f.i = 0 THEN GM ELSE speakerAt(f.i)

\* handleGMTurn up to its first await: sleep(gmThinkingTime).
handleGMTurn(f) == sleep([f EXCEPT !.i = 0, !.attempt = 0], gmThinkingTime, "retry")

\* handleAgentTurn up to its first await: sleep(getRandomDelay()).
handleAgentTurn(f, d) == sleep([f EXCEPT !.attempt = 0], d, "retry")

\* Mutant of turnOver: the for loop steps by two.
turnOverSkipping(f) == sleep([f EXCEPT !.i = @ + 2], turnDelay, "agLoop")
\* A turn returned to the round loop: sleep(turnDelay), then the for loop's
\* next index.
turnOver(f) == sleep([f EXCEPT !.i = @ + 1], turnDelay, "agLoop")

\* Mutant of retryWithBackoff: a rate-limit failure is retried whatever i is.
retryWithBackoffUnbounded(f, rateLimited) ==
  IF rateLimited
  THEN sleep([f EXCEPT !.attempt = @ + 1], retryDelay * (2 ^ f.attempt), "retry")
  ELSE sleep(f, retryDelay, "loop")
\* Mutant of retryWithBackoff: the error leaves startDebate.
retryWithBackoffAborting(f, rateLimited) == [f EXCEPT !.pc = "threw"]
\* retryWithBackoff's catch: a rate-limit failure with attempts left sleeps
\* retryDelay * 2^i and continues with i + 1; any other failure is thrown, to
\* the round loop's catch, which sleeps retryDelay and runs the while test.
retryWithBackoff(f, rateLimited) ==
  IF rateLimited /\ f.attempt < maxRetries - 1
  THEN sleep([f EXCEPT !.attempt = @ + 1], retryDelay * (2 ^ f.attempt), "retry")
  ELSE sleep(f, retryDelay, "loop")

\* The participants verifyConnections polls: the Moderator and the Debaters.
Participants == {GM} \cup {agents[n] : n \in 1..Len(agents)}

\* Mutant of allConnected: only the Debaters' channels are polled.
allConnectedDebaters(conn) == \A n \in 1..Len(agents) : agents[n] \in conn
\* [gameMaster's isConnected(), ...agents' isConnected()].every(Boolean)
allConnected(conn) == \A p \in Participants : p \in conn

\* verifyConnections from its while test with `retries` polls behind it. (The
\* frame of a call that has returned or raised holds no locals.)
verifyConnections(retries, conn) ==
  IF retries < verifyMaxRetries
  THEN IF allConnected(conn)
       THEN [IdleInit EXCEPT !.pc = "ok"]
       ELSE [pc |-> "verifyWait", k |-> 0, retries |-> retries, ms |-> verifyRetryDelay]
  ELSE [IdleInit EXCEPT !.pc = "threw"]

\* The participant whose setRoomAndRound call initialize() awaits.
settingUp(f) == IF f.pc = "gmSet" THEN GM ELSE agents[f.k]

\* The participants whose setRoomAndRound call has returned.
setUp(f) ==
  IF f.pc = "verifyWait" THEN Participants
  ELSE IF f.pc = "agSet" THEN {GM} \cup {agents[n] : n \in 1..(f.k - 1)}
  ELSE {}

\* What is watched of `connected` in frame f.
watched(f, conn) == IF f.pc \in {"agSet", "verifyWait"} THEN conn ELSE {}

\* ------------------------------------------------------------------------
\* DebateOrchestrator: actions
\* ------------------------------------------------------------------------

InitOrch ==
  /\ roomId = 0 /\ roundId = 0
  /\ isDebating = FALSE /\ isRunning = FALSE
  /\ phase = "init"
  /\ sinceLastApiCall = ORCH_MIN_API_INTERVAL
  /\ sd = IdleFrame /\ ini = IdleInit
  /\ connected = {}
  /\ turns = <<>> /\ sends = <<>> /\ skipped = FALSE
  /\ everInitOk = FALSE /\ stopAge = 0 /\ lateEmit = FALSE /\ failure = "none"
  /\ closedClients = {} /\ stopCalls = 0 /\ closingSent = 0 /\ closingPending = 0
  /\ closingLogged = FALSE

\* initialize(roomId) up to its first await, gmClient.setRoomAndRound(roomId).
\* The caller awaits each call of initialize and startDebate before it makes
\* the next one; stopDebate is called at any moment.
initialize ==
  /\ ini.pc \in {"idle", "ok", "threw"}
  /\ sd.pc \in {"idle", "returned", "threw"}
  /\ \E r \in RoomIds : roomId' = r
  /\ ini' = [pc |-> "gmSet", k |-> 0, retries |-> 0, ms |-> 0]
  /\ connected' = {}
  /\ UNCHANGED <<roundId, isDebating, isRunning, phase, sinceLastApiCall, sd,
                 turns, sends, skipped, everInitOk, stopAge, lateEmit>>
  /\ UNCHANGED stopVars
  /\ UNCHANGED failure
  /\ UNCHANGED notOrch

\* A setRoomAndRound call of initialize returns or raises. After the last one,
\* verifyConnections runs its first poll at once.
setRoomAndRoundDone ==
  /\ ini.pc \in {"gmSet", "agSet"}
  /\ \E ok \in BOOLEAN, rd \in RoundIds :
       /\ roundId' = IF ok /\ ini.pc = "gmSet" THEN rd ELSE roundId
       /\ ini' = IF ~ok THEN [IdleInit EXCEPT !.pc = "threw"]
                 ELSE IF ini.k < Len(agents) THEN [ini EXCEPT !.pc = "agSet", !.k = @ + 1]
                 ELSE verifyConnections(0, connected \cup {settingUp(ini)})
       /\ connected' = watched(ini', connected \cup {settingUp(ini)})
  /\ everInitOk' = (everInitOk \/ ini'.pc = "ok")
  /\ UNCHANGED <<roomId, isDebating, isRunning, phase, sinceLastApiCall, sd,
                 turns, sends, skipped, stopAge, lateEmit>>
  /\ UNCHANGED stopVars
  /\ UNCHANGED failure
  /\ UNCHANGED notOrch

\* verifyConnections resumes from its 2s timer: retries++, then the while test.
verifyWake ==
  /\ ini.pc = "verifyWait"
  /\ ini' = verifyConnections(ini.retries + 1, connected)
  /\ connected' = watched(ini', connected)
  /\ everInitOk' = (everInitOk \/ ini'.pc = "ok")
  /\ UNCHANGED <<roomId, roundId, isDebating, isRunning, phase, sinceLastApiCall, sd,
                 turns, sends, skipped, stopAge, lateEmit>>
  /\ UNCHANGED stopVars
  /\ UNCHANGED failure
  /\ UNCHANGED notOrch

\* While initialize() is suspended, the channel of a participant that has
\* been set up drops or is connected again.
channelChange ==
  /\ \E p \in setUp(ini) :
       connected' = IF p \in connected THEN connected \ {p} ELSE connected \cup {p}
  /\ UNCHANGED <<roomId, roundId, isDebating, isRunning, phase, sinceLastApiCall, sd, ini,
                 turns, sends, skipped, everInitOk, stopAge, lateEmit>>
  /\ UNCHANGED stopVars
  /\ UNCHANGED failure
  /\ UNCHANGED notOrch

\* startDebate() up to its first await, the first opening broadcast.
startDebate ==
  /\ sd.pc \in {"idle", "returned", "threw"}
  /\ ini.pc \in {"idle", "ok", "threw"}
  /\ IF roomId = 0 \/ roundId = 0
     THEN /\ sd' = [IdleFrame EXCEPT !.pc = "threw"]
          /\ UNCHANGED <<isDebating, phase>>
     ELSE /\ isDebating' = TRUE
          /\ phase' = "init"
          /\ sd' = [IdleFrame EXCEPT !.pc = "open"]
  /\ turns' = <<>> /\ sends' = <<>> /\ skipped' = FALSE /\ stopAge' = 0
  /\ UNCHANGED <<roomId, roundId, isRunning, sinceLastApiCall, ini, everInitOk, lateEmit>>
  /\ UNCHANGED stopVars
  /\ failure' = "none"
  /\ UNCHANGED connected
  /\ UNCHANGED notOrch

\* The opening broadcasts of startDebate, in the order of its statements.
OpeningBroadcasts ==
  <<"Room initialized. Beginning debate round.",
    "Beginning discussion phase. Agents may now engage in debate.",
    "Let's discuss the future of cryptocurrency. What are your thoughts on Bitcoin versus Ethereum?">>

\* Mutant of moreOpenings: the last opening broadcast is left out.
moreOpeningsShort(opened) == opened + 1 < Len(OpeningBroadcasts) - 1
\* With `opened` opening broadcasts returned before the one that returns now,
\* is another awaited before the round loop?
moreOpenings(opened) == opened + 1 < Len(OpeningBroadcasts)

\* An opening gmClient.sendGMMessage returns or raises. After the third, the
\* phase is discussion, isRunning is set and the while loop starts the
\* Moderator's turn.
openBroadcast ==
  /\ sd.pc = "open"
  /\ \E ok \in BOOLEAN :
       IF ~ok
       THEN /\ sd' = [sd EXCEPT !.pc = "threw"]
            /\ UNCHANGED <<phase, isRunning, turns>>
       ELSE IF moreOpenings(sd.opened)
       THEN /\ sd' = [sd EXCEPT !.opened = @ + 1]
            /\ UNCHANGED <<phase, isRunning, turns>>
       ELSE /\ phase' = "discussion"
            /\ isRunning' = TRUE
            /\ sd' = handleGMTurn([sd EXCEPT !.opened = @ + 1])
            /\ turns' = <<GM>>
  /\ UNCHANGED <<roomId, roundId, isDebating, sinceLastApiCall, ini, sends, skipped,
                 everInitOk, stopAge, lateEmit>>
  /\ UNCHANGED stopVars
  /\ UNCHANGED failure
  /\ UNCHANGED connected
  /\ UNCHANGED notOrch

\* A sleep of startDebate's loop ends and the code runs on to its next await.
wake ==
  /\ sd.pc = "sleep"
  /\ LET since == Min(sinceLastApiCall + sd.ms, ORCH_MIN_API_INTERVAL) IN
       CASE sd.cont = "retry" ->
              \* retryWithBackoff's loop body: waitForRateLimit, then the operation
              /\ IF waitTime(since) > 0
                 THEN sd' = sleep(sd, waitTime(since), "op") /\ sinceLastApiCall' = since
                 ELSE sd' = startOperation(sd) /\ sinceLastApiCall' = 0
              /\ UNCHANGED <<turns, sends, skipped>>
         [] sd.cont = "op" ->
              \* waitForRateLimit after its sleep: lastApiCall = Date.now()
              /\ sd' = startOperation(sd) /\ sinceLastApiCall' = 0
              /\ UNCHANGED <<turns, sends, skipped>>
         [] sd.cont = "agLoop" ->
              \* the for loop's test: i < agents.length && isRunning
              /\ IF sd.i <= Len(agents) /\ isRunning
                 THEN \E d \in RandomDelays :
                        /\ sd' = handleAgentTurn(sd, d)
                        /\ turns' = Append(turns, speakerAt(sd.i))
                 ELSE sd' = sleep(sd, roundBreak, "loop") /\ UNCHANGED turns
              /\ sinceLastApiCall' = since
              /\ UNCHANGED <<sends, skipped>>
         [] sd.cont = "loop" ->
              \* the while loop's test
              /\ IF isRunning
                 THEN sd' = handleGMTurn(sd) /\ turns' = <<GM>>
                 ELSE sd' = [IdleFrame EXCEPT !.pc = "returned"] /\ turns' = <<>>
              /\ sends' = <<>> /\ skipped' = FALSE
              /\ sinceLastApiCall' = since
  /\ stopAge' = IF sd'.pc = "returned" THEN 0 ELSE IF stopAge = 1 THEN 2 ELSE stopAge
  /\ UNCHANGED <<roomId, roundId, isDebating, isRunning, phase, ini, everInitOk, lateEmit>>
  /\ UNCHANGED stopVars
  /\ failure' = "none"
  /\ UNCHANGED connected
  /\ UNCHANGED notOrch

\* processMessage's catch returns null, and with null handleAgentTurn's
\* operation and PVPVAIIntegration.sendAIMessage return normally: the turn is
\* over as if it had sent.
generationFailed(f) == turnOver(f)

\* PVPVAIIntegration.processMessage returns to the turn: the generated text, or
\* null (no text, or an error it caught). handleAgentTurn calls it, and
\* PVPVAIIntegration.sendAIMessage calls it again on the text to send.
processMessageDone ==
  /\ sd.pc \in {"gen1", "gen2"}
  /\ \E r \in {"text", "empty", "raised"} :
       IF r = "text"
       THEN /\ sd' = [sd EXCEPT !.pc = IF sd.pc = "gen1" THEN "gen2" ELSE "emit"]
            /\ UNCHANGED <<skipped, failure>>
       ELSE /\ sd' = generationFailed(sd)
            /\ skipped' = TRUE
            /\ failure' = IF r = "empty" THEN failure
                          ELSE IF sd.pc = "gen1" THEN "processMessage" ELSE "sendAIMessage"
  /\ UNCHANGED <<roomId, roundId, isDebating, isRunning, phase, sinceLastApiCall, ini,
                 turns, sends, everInitOk, stopAge, lateEmit>>
  /\ UNCHANGED stopVars
  /\ UNCHANGED connected
  /\ UNCHANGED notOrch

\* The client's send (broadcastToRoom for the Moderator, AgentClient.sendAIMessage
\* for a Debater) returns, or raises an error that is a rate-limit one or not.
emitDone ==
  /\ sd.pc = "emit"
  /\ \E r \in {"ok", "rateLimited", "error"} :
       IF r = "ok"
       THEN /\ sends' = Append(sends, who(sd))
            /\ lateEmit' = (lateEmit \/ stopAge = 2)
            /\ sd' = turnOver(sd)
            /\ UNCHANGED <<skipped, failure>>
       ELSE /\ sd' = retryWithBackoff(sd, r = "rateLimited")
            /\ skipped' = (skipped \/ sd'.cont = "loop")
            /\ failure' = r
            /\ UNCHANGED <<sends, lateEmit>>
  /\ UNCHANGED <<roomId, roundId, isDebating, isRunning, phase, sinceLastApiCall, ini,
                 turns, everInitOk, stopAge>>
  /\ UNCHANGED stopVars
  /\ UNCHANGED connected
  /\ UNCHANGED notOrch

\* stopDebate's cleanup: for (const runtime of this.agents) client.close().
closeClients(closed) == closed \cup {agents[n] : n \in 1..Len(agents)}

\* Mutant of closingBroadcasts: the closing message is sent twice.
closingBroadcastsTwice(n) == n + 2
\* stopDebate's closing broadcast: one gmClient.sendGMMessage call, with a
\* catch handler on its promise.
closingBroadcasts(n) == n + 1

\* stopDebate(): synchronous; the closing broadcast is not awaited.
stopDebate ==
  /\ stopCalls < MaxStops
  /\ stopCalls' = stopCalls + 1
  /\ isDebating' = FALSE
  /\ phase' = "end"
  /\ closingSent' = closingBroadcasts(closingSent)
  /\ closingPending' = closingBroadcasts(closingPending)
  /\ isRunning' = FALSE
  /\ closedClients' = closeClients(closedClients)
  /\ stopAge' = IF sd.pc \in {"sleep", "gen1", "gen2", "emit"} THEN Max(stopAge, 1) ELSE stopAge
  /\ UNCHANGED <<roomId, roundId, sinceLastApiCall, sd, ini, turns, sends, skipped,
                 everInitOk, lateEmit, closingLogged>>
  /\ UNCHANGED failure
  /\ connected' = watched(ini, connected \ closeClients({}))
  /\ UNCHANGED notOrch

\* The promise of a closing broadcast settles: a rejection goes to the catch
\* handler stopDebate attached, which logs it.
closingBroadcastDone ==
  /\ closingPending > 0
  /\ closingPending' = closingPending - 1
  /\ \E ok \in BOOLEAN : closingLogged' = (closingLogged \/ ~ok)
  /\ UNCHANGED <<roomId, roundId, isDebating, isRunning, phase, sinceLastApiCall, sd, ini,
                 turns, sends, skipped, everInitOk, stopAge, lateEmit,
                 closedClients, stopCalls, closingSent>>
  /\ UNCHANGED failure
  /\ UNCHANGED connected
  /\ UNCHANGED notOrch

\* ------------------------------------------------------------------------
\* SharedWebSocket (shared-websocket.ts) with AgentClient's handlers
\* (part_000:465-474, 908-912). Time is counted in seconds.
\* ------------------------------------------------------------------------

HEARTBEAT_INTERVAL == 30000
HEARTBEAT_TIMEOUT == 30000
MAX_RECONNECT_DELAY == 30000
CONNECT_TIMEOUT == 5000
ONCLOSE_RECONNECT_DELAY == 5000
NoTimer == -1
NoSocket == [id |-> 0, st |-> "none"]

\* setTimeout/setInterval take milliseconds; the model's clock ticks in seconds.
Seconds(ms) == ms \div 1000

\* A step that is neither a send() call, a heartbeat tick nor a connection
\* timeout and writes nothing to the socket.
NoOp == [op |-> "none", wrote |-> <<>>, attempt |-> 0, was |-> "none", rejected |-> FALSE]

\* The first envelope on a socket, after `writes` were written to it.
FirstOf(first, writes) == IF first = "none" /\ writes # <<>> THEN Head(writes) ELSE first

InitWS ==
  /\ ws = NoSocket
  /\ heartbeatInterval = NoTimer
  /\ reconnectAttempt = 0
  /\ isActive = TRUE
  /\ sinceHeartbeatResponse = 0
  /\ reconnectTimer = NoTimer
  /\ connectTimeouts = <<>>
  /\ onCloseTimers = <<>>
  /\ sockCount = 0
  /\ clientIsActive = TRUE
  /\ schedLog = <<>>
  /\ firstEnvelope = "none"
  /\ heartbeatSent = FALSE
  /\ lastOp = NoOp

\* handleDisconnect's delay.
reconnectDelay(attempt) == Min(1000 * (2 ^ attempt), MAX_RECONNECT_DELAY)

\* ws.close() on a socket in state st: a socket that is connecting or open
\* starts closing and emits 'close' later; otherwise nothing happens.
closeSocket(sock) ==
  IF sock.st \in {"connecting", "open"} THEN [sock EXCEPT !.st = "closing"] ELSE sock

\* connect(): the old socket loses its listeners and is closed, the pending
\* reconnect timer is cleared, a new socket is created and its 5s connection
\* timeout is armed.
connect ==
  /\ sockCount < MaxSockets
  /\ sockCount' = sockCount + 1
  /\ ws' = [id |-> sockCount + 1, st |-> "connecting"]
  /\ reconnectTimer' = NoTimer
  /\ connectTimeouts' = Append(connectTimeouts, [id |-> sockCount + 1,
                                                  rem |-> Seconds(CONNECT_TIMEOUT),
                                                  promise |-> "pending"])
  /\ firstEnvelope' = "none"
  /\ heartbeatSent' = FALSE
  /\ lastOp' = NoOp

\* handleDisconnect(), given the socket's new state: the heartbeat interval is
\* cleared; an active channel schedules a reconnect and calls onClose, which
\* for an active AgentClient arms a 5s timer that calls connect().
handleDisconnect(sock) ==
  /\ ws' = sock
  /\ heartbeatInterval' = NoTimer
  /\ IF ~isActive
     THEN UNCHANGED <<reconnectTimer, schedLog, onCloseTimers>>
     ELSE /\ reconnectTimer' = Seconds(reconnectDelay(reconnectAttempt))
          /\ schedLog' = Append(schedLog, reconnectDelay(reconnectAttempt))
          /\ onCloseTimers' = IF clientIsActive
                              THEN Append(onCloseTimers, Seconds(ONCLOSE_RECONNECT_DELAY))
                              ELSE onCloseTimers

\* AgentClient.setRoomAndRound calls connect() on the channel it has just built
\* (no time passes between the constructor and the call).
firstConnect ==
  /\ sockCount = 0 /\ isActive
  /\ connect
  /\ UNCHANGED <<heartbeatInterval, reconnectAttempt, isActive, sinceHeartbeatResponse,
                 onCloseTimers, clientIsActive, schedLog>>
  /\ UNCHANGED notWS

\* Mutant of subscribeToRoom: nothing is written.
subscribeToRoomNever(st) == <<>>
\* subscribeToRoom(), given the socket's readyState: the envelopes it writes.
subscribeToRoom(st) == IF st = "open" THEN <<"SUBSCRIBE_ROOM">> ELSE <<>>

\* 'open' on the current socket: the attempt counter is reset, SUBSCRIBE_ROOM
\* is sent, the heartbeat interval is set up and this attempt's connection
\* timeout is cleared.
onOpen ==
  /\ ws.st = "connecting"
  /\ ws' = [ws EXCEPT !.st = "open"]
  /\ firstEnvelope' = FirstOf(firstEnvelope, subscribeToRoom("open"))
  /\ UNCHANGED heartbeatSent
  /\ lastOp' = [NoOp EXCEPT !.wrote = subscribeToRoom("open")]
  /\ reconnectAttempt' = 0
  /\ heartbeatInterval' = Seconds(HEARTBEAT_INTERVAL)
  /\ connectTimeouts' = SelectSeq(connectTimeouts, LAMBDA t : t.id # ws.id)
  /\ schedLog' = <<>>
  /\ UNCHANGED <<isActive, sinceHeartbeatResponse, reconnectTimer, onCloseTimers, sockCount,
                 clientIsActive>>
  /\ UNCHANGED notWS

\* 'close' on the current socket: a failed connection attempt ('error', then
\* 'close'), a dropped connection, or the end of a close() the channel began.
\* A socket that closes before it opened has emitted 'error' first, which
\* rejects the attempt's promise; the attempt's timeout stays armed.
onClose ==
  /\ ws.st \in {"connecting", "open", "closing"}
  /\ handleDisconnect([ws EXCEPT !.st = "closed"])
  /\ connectTimeouts' = [n \in 1..Len(connectTimeouts) |->
                           IF connectTimeouts[n].id = ws.id
                           THEN [connectTimeouts[n] EXCEPT !.promise = "rejected"]
                           ELSE connectTimeouts[n]]
  /\ lastOp' = NoOp
  /\ UNCHANGED <<reconnectAttempt, isActive, sinceHeartbeatResponse,
                 sockCount, clientIsActive, firstEnvelope, heartbeatSent>>
  /\ UNCHANGED notWS

\* The reconnect timer fires: reconnectAttempt++, connect().
reconnectFire ==
  /\ reconnectTimer = 0
  /\ reconnectAttempt' = reconnectAttempt + 1
  /\ connect
  /\ UNCHANGED <<heartbeatInterval, isActive, sinceHeartbeatResponse, onCloseTimers,
                 clientIsActive, schedLog>>
  /\ UNCHANGED notWS

\* A timer of AgentClient's onClose handler fires: this.wsClient.connect().
onCloseFire ==
  /\ onCloseTimers # <<>> /\ Head(onCloseTimers) = 0
  /\ onCloseTimers' = Tail(onCloseTimers)
  /\ connect
  /\ UNCHANGED <<heartbeatInterval, reconnectAttempt, isActive, sinceHeartbeatResponse,
                 clientIsActive, schedLog>>
  /\ UNCHANGED notWS

\* A connection timeout fires: unless the channel's current socket is open,
\* that socket is closed (and the attempt's promise rejected).
connectTimeoutFire ==
  /\ connectTimeouts # <<>> /\ Head(connectTimeouts).rem = 0
  /\ connectTimeouts' = Tail(connectTimeouts)
  /\ ws' = IF ws.st # "open" THEN closeSocket(ws) ELSE ws
  /\ lastOp' = [op |-> "timeout", wrote |-> <<>>, attempt |-> Head(connectTimeouts).id,
                was |-> Head(connectTimeouts).promise, rejected |-> ws.st # "open"]
  /\ UNCHANGED <<heartbeatInterval, reconnectAttempt, isActive, sinceHeartbeatResponse,
                 reconnectTimer, onCloseTimers, sockCount, clientIsActive, schedLog,
                 firstEnvelope, heartbeatSent>>
  /\ UNCHANGED notWS

\* Mutant of heartbeatTimedOut: a missing response is never noticed.
heartbeatTimedOutNever(since) == FALSE
\* The interval callback's test: timeSinceLastResponse > HEARTBEAT_TIMEOUT.
heartbeatTimedOut(since) == since > Seconds(HEARTBEAT_TIMEOUT)

\* The heartbeat interval ticks: nothing without an open socket; a socket whose
\* last heartbeat response is older than HEARTBEAT_TIMEOUT is closed; otherwise
\* a HEARTBEAT is sent.
heartbeatTick ==
  /\ heartbeatInterval = 0
  /\ heartbeatInterval' = Seconds(HEARTBEAT_INTERVAL)
  /\ ws' = IF ws.st = "open" /\ heartbeatTimedOut(sinceHeartbeatResponse)
           THEN closeSocket(ws) ELSE ws
  /\ lastOp' = [NoOp EXCEPT !.op = "heartbeat",
                            !.wrote = IF ws.st = "open" /\ ws' = ws
                                      THEN <<"HEARTBEAT">> ELSE <<>>]
  /\ firstEnvelope' = FirstOf(firstEnvelope, lastOp'.wrote)
  /\ heartbeatSent' = (heartbeatSent \/ lastOp'.wrote # <<>>)
  /\ UNCHANGED <<reconnectAttempt, isActive, sinceHeartbeatResponse, reconnectTimer,
                 connectTimeouts, onCloseTimers, sockCount, clientIsActive, schedLog>>
  /\ UNCHANGED notWS

\* An inbound HEARTBEAT on the open socket: handleHeartbeat().
handleHeartbeat ==
  /\ ws.st = "open"
  /\ sinceHeartbeatResponse' = 0
  /\ UNCHANGED <<ws, heartbeatInterval, reconnectAttempt, isActive, reconnectTimer,
                 connectTimeouts, onCloseTimers, sockCount, clientIsActive, schedLog>>
  /\ lastOp' = NoOp
  /\ UNCHANGED <<firstEnvelope, heartbeatSent>>
  /\ UNCHANGED notWS

\* close(): the channel is marked inactive, the heartbeat interval is cleared
\* and the socket is closed. AgentClient.stop() clears its own isActive first;
\* setRoomAndRound closes the channel it replaces without doing so.
close ==
  /\ isActive
  /\ \E byStop \in BOOLEAN : clientIsActive' = (clientIsActive /\ ~byStop)
  /\ isActive' = FALSE
  /\ heartbeatInterval' = NoTimer
  /\ ws' = closeSocket(ws)
  /\ UNCHANGED <<reconnectAttempt, sinceHeartbeatResponse, reconnectTimer, connectTimeouts,
                 onCloseTimers, sockCount, schedLog>>
  /\ lastOp' = NoOp
  /\ UNCHANGED <<firstEnvelope, heartbeatSent>>
  /\ UNCHANGED notWS

\* Mutant of sendWrites: the message is written whatever the socket's state.
sendWritesAlways(st) == TRUE
\* send's test: this.ws?.readyState === WebSocket.OPEN.
sendWrites(st) == st = "open"

\* send(message): the message is written to the socket if it is open; nothing
\* else happens.
send ==
  /\ sockCount > 0
  /\ lastOp' = [NoOp EXCEPT !.op = "send",
                            !.wrote = IF sendWrites(ws.st) THEN <<"MESSAGE">> ELSE <<>>]
  /\ firstEnvelope' = FirstOf(firstEnvelope, lastOp'.wrote)
  /\ UNCHANGED heartbeatSent
  /\ UNCHANGED <<ws, heartbeatInterval, reconnectAttempt, isActive, sinceHeartbeatResponse,
                 reconnectTimer, connectTimeouts, onCloseTimers, sockCount, clientIsActive,
                 schedLog>>
  /\ UNCHANGED notWS

\* One second passes; a timer that is due fires first.
TimerDue ==
  \/ reconnectTimer = 0
  \/ heartbeatInterval = 0
  \/ \E n \in 1..Len(connectTimeouts) : connectTimeouts[n].rem = 0
  \/ \E n \in 1..Len(onCloseTimers) : onCloseTimers[n] = 0

tick ==
  /\ sockCount > 0
  /\ ~TimerDue
  /\ reconnectTimer' = IF reconnectTimer = NoTimer THEN NoTimer ELSE reconnectTimer - 1
  /\ heartbeatInterval' = IF heartbeatInterval = NoTimer THEN NoTimer ELSE heartbeatInterval - 1
  /\ connectTimeouts' = [n \in 1..Len(connectTimeouts) |->
                           [connectTimeouts[n] EXCEPT !.rem = @ - 1]]
  /\ onCloseTimers' = [n \in 1..Len(onCloseTimers) |-> onCloseTimers[n] - 1]
  /\ sinceHeartbeatResponse' = Min(sinceHeartbeatResponse + 1, Seconds(HEARTBEAT_TIMEOUT) + 1)
  /\ UNCHANGED <<ws, reconnectAttempt, isActive, sockCount, clientIsActive, schedLog>>
  /\ lastOp' = NoOp
  /\ UNCHANGED <<firstEnvelope, heartbeatSent>>
  /\ UNCHANGED notWS

NextWS ==
  \/ firstConnect
  \/ onOpen
  \/ onClose
  \/ reconnectFire
  \/ onCloseFire
  \/ connectTimeoutFire
  \/ heartbeatTick
  \/ handleHeartbeat
  \/ close
  \/ send
  \/ tick

\* ------------------------------------------------------------------------
\* PVPVAIIntegration: the rate limiter of processMessage (part_000:171-213)
\* ------------------------------------------------------------------------

MIN_API_INTERVAL == 15000
\* One tick of the clock.
RateTick == MIN_API_INTERVAL \div 3
Callers == 1..NCallers

\* lastApiCall starts at 0 and Date.now() is far beyond MIN_API_INTERVAL.
InitRate ==
  /\ now = 2 * MIN_API_INTERVAL
  /\ lastApiCall = 0
  /\ callers = [c \in Callers |-> [pc |-> "idle", wakeAt |-> 0]]
  /\ genStarts = <<>>

\* waitForRateLimit's waitTime at time t.
rateLimitWait(t, last) == Max(0, MIN_API_INTERVAL - (t - last))

\* processMessage(message) with a non-empty message, up to its first await.
\* (Its own duplicate check compares `${Date.now()}-${message}` with the ids of
\* answered calls: it drops a call only within the millisecond of an answered
\* one, and is left out.) waitForRateLimit with nothing to wait for runs on
\* without a pause: lastApiCall is written and generateText is called.
processMessage(c) ==
  /\ callers[c].pc = "idle"
  /\ IF rateLimitWait(now, lastApiCall) > 0
     THEN /\ callers' = [callers EXCEPT ![c] = [pc |-> "waiting",
                                                wakeAt |-> now + rateLimitWait(now, lastApiCall)]]
          /\ UNCHANGED <<lastApiCall, genStarts>>
     ELSE /\ callers' = [callers EXCEPT ![c] = [pc |-> "generating", wakeAt |-> 0]]
          /\ lastApiCall' = now
          /\ genStarts' = Append(genStarts, now)
  /\ UNCHANGED now
  /\ UNCHANGED notRate

\* waitForRateLimit's timer fires: lastApiCall is written and generateText is
\* called.
rateLimitWake(c) ==
  /\ callers[c].pc = "waiting" /\ callers[c].wakeAt <= now
  /\ callers' = [callers EXCEPT ![c] = [pc |-> "generating", wakeAt |-> 0]]
  /\ lastApiCall' = now
  /\ genStarts' = Append(genStarts, now)
  /\ UNCHANGED now
  /\ UNCHANGED notRate

\* generateText returns or raises: processMessage returns.
generateTextDone(c) ==
  /\ callers[c].pc = "generating"
  /\ callers' = [callers EXCEPT ![c] = [pc |-> "idle", wakeAt |-> 0]]
  /\ UNCHANGED <<now, lastApiCall, genStarts>>
  /\ UNCHANGED notRate

\* The clock moves on, once every timer that is due has fired.
rateTick ==
  /\ now < 2 * MIN_API_INTERVAL + MaxTicks * RateTick
  /\ \A c \in Callers : callers[c].pc = "waiting" => callers[c].wakeAt > now
  /\ now' = now + RateTick
  /\ UNCHANGED <<lastApiCall, callers, genStarts>>
  /\ UNCHANGED notRate

NextRate ==
  \/ \E c \in Callers : processMessage(c)
  \/ \E c \in Callers : rateLimitWake(c)
  \/ \E c \in Callers : generateTextDone(c)
  \/ rateTick

\* ------------------------------------------------------------------------
\* AgentClient: inbound AGENT_MESSAGE handling (part_000:654-674, 870-872)
\* ------------------------------------------------------------------------

\* This participant's numeric id and another Debater's (getAgentConfig's ids).
agentNumericId == 50
otherAgentId == 56

\* The AGENT_MESSAGE envelopes that reach the participant: content.timestamp,
\* content.agentId and content.text (empty or not).
InboundMessages == [timestamp : {1, 2}, agentId : {agentNumericId, otherAgentId},
                    text : {"", "text"}]

\* `${message.content?.timestamp}-${message.content?.agentId}`
MessageId(m) == <<m.timestamp, "-", m.agentId>>
MessageIds == {MessageId(m) : m \in InboundMessages}

InitDedup ==
  /\ processedMessages = {}
  /\ handlers = [k \in MessageIds |-> [gen |-> 0, post |-> 0]]
  /\ delivered = [k \in MessageIds |-> 0]
  /\ genCalls = [k \in MessageIds |-> 0]
  /\ replies = [k \in MessageIds |-> 0]
  /\ outcome = [k \in MessageIds |-> "none"]

\* Mutant of isDuplicate: no message counts as seen.
isDuplicateNever(k, processed) == FALSE
\* this.processedMessages.has(messageId)
isDuplicate(k, processed) == k \in processed

\* handleWebSocketMessage hands an AGENT_MESSAGE to handleAgentMessage, which
\* runs to its first await: a message id seen before is skipped; otherwise the
\* id is recorded and, for a message of another agent, integration.processMessage
\* is called (it returns null at once for an empty text).
handleAgentMessage(m) ==
  LET k == MessageId(m) IN
  /\ delivered[k] < MaxDeliveries
  /\ delivered' = [delivered EXCEPT ![k] = @ + 1]
  /\ IF isDuplicate(k, processedMessages)
     THEN UNCHANGED <<processedMessages, handlers, genCalls, outcome>>
     ELSE /\ processedMessages' = processedMessages \cup {k}
          /\ IF m.agentId = agentNumericId
             THEN UNCHANGED <<handlers, genCalls, outcome>>
             ELSE IF m.text = ""
             THEN /\ outcome' = [outcome EXCEPT ![k] = IF @ = "none" THEN "noReply" ELSE @]
                  /\ UNCHANGED <<handlers, genCalls>>
             ELSE /\ handlers' = [handlers EXCEPT ![k].gen = @ + 1]
                  /\ genCalls' = [genCalls EXCEPT ![k] = @ + 1]
                  /\ outcome' = [outcome EXCEPT ![k] = IF @ = "none" THEN "pending" ELSE @]
  /\ UNCHANGED replies
  /\ UNCHANGED notDedup

\* integration.processMessage returns to handleAgentMessage: with a response
\* this.sendAIMessage is called, with null the handler ends.
handlerGenerated(k) ==
  /\ handlers[k].gen > 0
  /\ \E response \in BOOLEAN :
       IF response
       THEN /\ handlers' = [handlers EXCEPT ![k].gen = @ - 1, ![k].post = @ + 1]
            /\ UNCHANGED outcome
       ELSE /\ handlers' = [handlers EXCEPT ![k].gen = @ - 1]
            /\ outcome' = [outcome EXCEPT ![k] = IF @ = "pending" THEN "noReply" ELSE @]
  /\ UNCHANGED <<processedMessages, delivered, genCalls, replies>>
  /\ UNCHANGED notDedup

\* AgentClient.sendAIMessage returns (the reply is posted) or raises (the
\* handler's catch logs the error).
handlerPosted(k) ==
  /\ handlers[k].post > 0
  /\ handlers' = [handlers EXCEPT ![k].post = @ - 1]
  /\ \E ok \in BOOLEAN :
       /\ replies' = [replies EXCEPT ![k] = IF ok THEN @ + 1 ELSE @]
       /\ outcome' = [outcome EXCEPT ![k] = IF @ # "pending" THEN @
                                            ELSE IF ok THEN "replied" ELSE "noReply"]
  /\ UNCHANGED <<processedMessages, delivered, genCalls>>
  /\ UNCHANGED notDedup

NextDedup ==
  \/ \E m \in InboundMessages : handleAgentMessage(m)
  \/ \E k \in MessageIds : handlerGenerated(k)
  \/ \E k \in MessageIds : handlerPosted(k)

\* ------------------------------------------------------------------------
\* The message contexts (part_000:231-236, 790-795)
\* ------------------------------------------------------------------------

MAX_CONTEXT_SIZE == 8
CLIENT_MAX_CONTEXT_SIZE == 8

InitCtx ==
  /\ messageContext = <<>> /\ clientContext = <<>>
  /\ pushedIntegration = <<>> /\ pushedClient = <<>>

\* Mutant of updateMessageContext: the test is > instead of >=.
updateMessageContextLate(context, memory) ==
  Append(IF Len(context) > MAX_CONTEXT_SIZE THEN Tail(context) ELSE context, memory)
\* PVPVAIIntegration.updateMessageContext: shift() when full, then push.
updateMessageContext(context, memory) ==
  Append(IF Len(context) >= MAX_CONTEXT_SIZE THEN Tail(context) ELSE context, memory)

\* AgentClient.updateMessageContext: shift() when full, then push.
clientUpdateMessageContext(context, entry) ==
  Append(IF Len(context) >= CLIENT_MAX_CONTEXT_SIZE THEN Tail(context) ELSE context, entry)

\* A DebateMemory is pushed into the integration's context.
pushMemory ==
  /\ Len(pushedIntegration) < MaxPushes
  /\ \E a \in {agentNumericId, otherAgentId} :
       LET memory == [timestamp |-> Len(pushedIntegration) + 1, agentId |-> a] IN
       /\ messageContext' = updateMessageContext(messageContext, memory)
       /\ pushedIntegration' = Append(pushedIntegration, memory)
  /\ UNCHANGED <<clientContext, pushedClient>>
  /\ UNCHANGED notCtx

\* A MessageHistoryEntry is pushed into the client's context.
pushEntry ==
  /\ Len(pushedClient) < MaxPushes
  /\ LET entry == [timestamp |-> Len(pushedClient) + 1, agentId |-> otherAgentId] IN
       /\ clientContext' = clientUpdateMessageContext(clientContext, entry)
       /\ pushedClient' = Append(pushedClient, entry)
  /\ UNCHANGED <<messageContext, pushedIntegration>>
  /\ UNCHANGED notCtx

NextCtx ==
  \/ pushMemory
  \/ pushEntry

\* ------------------------------------------------------------------------
\* The effect registries (part_000:238-244, 833-839)
\* ------------------------------------------------------------------------

EffectTypes == {"SILENCE", "DEAFEN", "POISON"}
EffectTargets == {"50", "56"}
\* An action's parameters: its find pattern; "(" is not a regular expression.
EffectParams == {"find", "("}

\* A Map as a function on its keys.
EmptyMap == [k \in {} |-> {}]
MapSet(map, key, value) ==
  [k \in DOMAIN map \cup {key} |-> IF k = key THEN value ELSE map[k]]
MapDelete(map, key) == [k \in DOMAIN map \ {key} |-> map[k]]

InitFx ==
  /\ activePvPEffects = EmptyMap
  /\ integrationEffects = EmptyMap

\* AgentClient.handlePvPStatusUpdate(message): the registry is keyed by
\* message.action.type.
handlePvPStatusUpdateOf(kind, action) ==
  /\ activePvPEffects' =
         IF kind = "PVP_ACTION_ENACTED" THEN MapSet(activePvPEffects, action.type, action)
         ELSE IF kind = "PVP_STATUS_REMOVED" THEN MapDelete(activePvPEffects, action.type)
         ELSE activePvPEffects
  /\ UNCHANGED integrationEffects
  /\ UNCHANGED notFx

StatusKinds == {"PVP_ACTION_ENACTED", "PVP_STATUS_REMOVED", "OTHER"}

handlePvPStatusUpdate ==
  \E kind \in StatusKinds,
     action \in [type : EffectTypes, targetId : EffectTargets, params : EffectParams] :
    handlePvPStatusUpdateOf(kind, action)

\* The status updates whose action targets this participant.
ownPvPStatusUpdate ==
  \E kind \in StatusKinds,
     action \in [type : EffectTypes, targetId : {"50"}, params : EffectParams] :
    handlePvPStatusUpdateOf(kind, action)

\* PVPVAIIntegration.updatePvPStatus(action): the registry is keyed by
\* action.targetId; an action without an actionType removes the target's record.
updatePvPStatus ==
  /\ \E action \in [actionType : EffectTypes \cup {""}, targetId : EffectTargets,
                     params : EffectParams] :
       integrationEffects' =
         IF action.actionType # "" THEN MapSet(integrationEffects, action.targetId, action)
         ELSE MapDelete(integrationEffects, action.targetId)
  /\ UNCHANGED activePvPEffects
  /\ UNCHANGED notFx

NextFx ==
  \/ handlePvPStatusUpdate
  \/ updatePvPStatus

\* ------------------------------------------------------------------------
\* signMessage (part_000:278-299). sortObjectKeys.ts is not part of the
\* sources at hand; it is modelled after the specification's canonicalize:
\* mapping keys sorted lexicographically.
\* ------------------------------------------------------------------------

\* The keys of a payload, in lexicographic order.
KeyOrder == <<"roomId", "text", "timestamp">>
PayloadKeys == {KeyOrder[n] : n \in 1..Len(KeyOrder)}
\* Field values: ids and Date.now() timestamps, all positive.
PayloadValues == {1, 2}
\* Date.now() at a signMessage call.
SignTimes == {3, 4}
PrivateKeys == {"k1", "k2", "invalid"}

\* An object is the sequence of its fields [key, value] in insertion order.
Fields(keys) ==
  {f \in [1..Cardinality(keys) -> [key : keys, value : PayloadValues]] :
     \A a, b \in 1..Cardinality(keys) : a # b => f[a].key # f[b].key}
Payloads == UNION {Fields(keys) : keys \in SUBSET PayloadKeys}

FieldSet(obj) == {obj[n] : n \in 1..Len(obj)}
HasKey(obj, k) == \E n \in 1..Len(obj) : obj[n].key = k
ValueOf(obj, k) == (CHOOSE f \in FieldSet(obj) : f.key = k).value
KeyRank(k) == CHOOSE n \in 1..Len(KeyOrder) : KeyOrder[n] = k

\* sortObjectKeys(obj): the same fields, keys in lexicographic order.
sortObjectKeys(obj) ==
  LET present == SelectSeq(KeyOrder, LAMBDA k : HasKey(obj, k))
  IN  [n \in 1..Len(present) |-> [key |-> present[n], value |-> ValueOf(obj, present[n])]]

\* JSON.stringify(obj): the keys and values in the object's own order.
JSONstringify(obj) == [n \in 1..Len(obj) |-> <<obj[n].key, obj[n].value>>]

\* new Wallet(privateKey).signMessage(messageString): the signature is a
\* function of the key and the string signed.
walletSignMessage(privateKey, messageString) == <<privateKey, messageString>>

\* `if (!content.timestamp) content.timestamp = Date.now()`: a missing (or
\* zero) timestamp is set, a new key goes last.
withTimestamp(content, t) ==
  IF ~HasKey(content, "timestamp")
  THEN Append(content, [key |-> "timestamp", value |-> t])
  ELSE [n \in 1..Len(content) |->
          IF content[n].key = "timestamp" /\ content[n].value = 0
          THEN [content[n] EXCEPT !.value = t] ELSE content[n]]

NoSignature == [st |-> "none", at |-> 0, privateKey |-> "none", content |-> <<>>,
                messageString |-> <<>>, signature |-> <<>>]

\* Mutant of signMessage: the content is serialized in its own key order.
signMessageUnsorted(content, privateKey, t) ==
  IF privateKey = "invalid"
  THEN [NoSignature EXCEPT !.st = "raised", !.at = t, !.privateKey = privateKey,
                           !.content = withTimestamp(content, t)]
  ELSE [st |-> "signed", at |-> t, privateKey |-> privateKey,
        content |-> withTimestamp(content, t),
        messageString |-> JSONstringify(withTimestamp(content, t)),
        signature |-> walletSignMessage(privateKey, JSONstringify(withTimestamp(content, t)))]
\* signMessage(content, privateKey) called at time t: the content as the call
\* leaves it, the string signed and the signature; an invalid key makes
\* `new Wallet` throw, which is raised as 'Failed to sign message'.
signMessage(content, privateKey, t) ==
  LET messageString == JSONstringify(sortObjectKeys(withTimestamp(content, t)))
  IN  IF privateKey = "invalid"
      THEN [NoSignature EXCEPT !.st = "raised", !.at = t, !.privateKey = privateKey,
                               !.content = withTimestamp(content, t)]
      ELSE [st |-> "signed", at |-> t, privateKey |-> privateKey,
            content |-> withTimestamp(content, t),
            messageString |-> messageString,
            signature |-> walletSignMessage(privateKey, messageString)]

InitSign ==
  /\ signIn = <<>>
  /\ signOut = <<NoSignature, NoSignature>>

\* A payload is assembled twice, from the same keys and values, in any two
\* key orders.
assemble ==
  /\ signIn = <<>>
  /\ \E p \in Payloads : \E q \in {x \in Payloads : FieldSet(x) = FieldSet(p)} :
       signIn' = <<p, q>>
  /\ UNCHANGED signOut
  /\ UNCHANGED notSign

\* The n-th payload is signed.
sign(n) ==
  /\ signIn # <<>> /\ signOut[n].st = "none"
  /\ \E privateKey \in PrivateKeys : \E t \in SignTimes :
       signOut' = [signOut EXCEPT ![n] = signMessage(signIn[n], privateKey, t)]
  /\ UNCHANGED signIn
  /\ UNCHANGED notSign

NextSign ==
  \/ assemble
  \/ \E n \in {1, 2} : sign(n)

\* ------------------------------------------------------------------------
\* AgentClient: room session and outbound messages (part_000:429-485, 558-621)
\* ------------------------------------------------------------------------

\* What GET /rooms/:id/rounds/active yields: a round id (the room's round may
\* have moved on since the last lookup), or 0 for a failed request or a
\* response without data.id (getActiveRound raises for both).
RoundResults == RoundIds \cup {r + 1 : r \in RoundIds} \cup {0}

POST_MAX_RETRIES == 3

IdleSetup == [pc |-> "idle", resolved |-> FALSE, roundBefore |-> 0]
IdlePost == [pc |-> "idle", retries |-> 0, attempts |-> 0, roomId |-> 0, roundId |-> 0]

InitClient ==
  /\ clRoomId = 0 /\ clRoundId = 0
  /\ sr = IdleSetup
  /\ channel = [connects |-> 0, roomId |-> 0, subscribed |-> FALSE]
  /\ post = IdlePost
  /\ setups = 0 /\ postCount = 0
  /\ posted = {} /\ resolved = {} /\ refused = FALSE

\* Mutant of initialized: only the room id is tested.
initializedRoomOnly(room, round) == room # 0
\* sendAIMessage's guard: !(!this.roomId || !this.roundId).
initialized(room, round) == room # 0 /\ round # 0

\* setRoomAndRound(roomId) up to its first await, getActiveRound().
setRoomAndRound ==
  /\ sr.pc = "idle" /\ setups < MaxSetups
  /\ setups' = setups + 1
  /\ \E r \in RoomIds : clRoomId' = r
  /\ sr' = [pc |-> "resolving", resolved |-> FALSE, roundBefore |-> clRoundId]
  /\ UNCHANGED <<clRoundId, channel, post, postCount, posted, resolved, refused>>
  /\ UNCHANGED notClient

\* getActiveRound returns or raises: with a round id this.roundId is set and
\* the auth content is signed; otherwise setRoomAndRound raises.
getActiveRoundDone ==
  /\ sr.pc = "resolving"
  /\ \E activeRound \in RoundResults :
       IF activeRound = 0
       THEN sr' = IdleSetup /\ UNCHANGED <<clRoundId, resolved>>
       ELSE /\ clRoundId' = activeRound
            /\ resolved' = resolved \cup {activeRound}
            /\ sr' = [sr EXCEPT !.pc = "signing", !.resolved = TRUE]
  /\ UNCHANGED <<clRoomId, channel, post, setups, postCount, posted, refused>>
  /\ UNCHANGED notClient

\* signMessage returns or raises: with a signature the old channel is closed,
\* a new one is built for this.roomId and its connect() is called.
authSigned ==
  /\ sr.pc = "signing"
  /\ \E ok \in BOOLEAN :
       IF ok
       THEN /\ channel' = [connects |-> channel.connects + 1, roomId |-> clRoomId,
                           subscribed |-> FALSE]
            /\ sr' = [sr EXCEPT !.pc = "connecting"]
       ELSE sr' = IdleSetup /\ UNCHANGED channel
  /\ UNCHANGED <<clRoomId, clRoundId, post, setups, postCount, posted, resolved, refused>>
  /\ UNCHANGED notClient

\* connect() resolves (the socket opened and SUBSCRIBE_ROOM was sent for
\* config.roomId) or rejects: setRoomAndRound returns or raises.
connectDone ==
  /\ sr.pc = "connecting"
  /\ \E ok \in BOOLEAN : channel' = [channel EXCEPT !.subscribed = ok]
  /\ sr' = IdleSetup
  /\ UNCHANGED <<clRoomId, clRoundId, post, setups, postCount, posted, resolved, refused>>
  /\ UNCHANGED notClient

\* sendAIMessage(content) up to its first await: it raises unless room and
\* round are set; otherwise the message content is built from them and signed.
sendAIMessage ==
  /\ post.pc = "idle" /\ postCount < MaxPosts
  /\ IF initialized(clRoomId, clRoundId)
     THEN /\ post' = [pc |-> "signing", retries |-> 0, attempts |-> 0,
                      roomId |-> clRoomId, roundId |-> clRoundId]
          /\ UNCHANGED refused
     ELSE /\ refused' = TRUE
          /\ UNCHANGED post
  /\ UNCHANGED <<clRoomId, clRoundId, sr, channel, setups, postCount, posted, resolved>>
  /\ UNCHANGED notClient

\* The POST request of the retry loop is made with the signed message.
postRequest(f) ==
  /\ postCount < MaxPosts
  /\ postCount' = postCount + 1
  /\ posted' = posted \cup {[roomId |-> f.roomId, roundId |-> f.roundId]}
  /\ post' = [f EXCEPT !.pc = "posting", !.attempts = @ + 1]

\* signMessage returns or raises in sendAIMessage.
messageSigned ==
  /\ post.pc = "signing"
  /\ \E ok \in BOOLEAN :
       IF ok THEN postRequest(post)
       ELSE post' = IdlePost /\ UNCHANGED <<postCount, posted>>
  /\ UNCHANGED <<clRoomId, clRoundId, sr, channel, setups, resolved, refused>>
  /\ UNCHANGED notClient

\* axios.post returns or raises: status 200 ends the call; another status it
\* returns with runs the while test again; an error counts a retry and either
\* is raised (the third) or waits 1000 * retries ms.
postDone ==
  /\ post.pc = "posting"
  /\ \E r \in {"200", "other", "error"} :
       CASE r = "200" -> post' = IdlePost /\ UNCHANGED <<postCount, posted>>
         [] r = "other" -> postRequest(post)
         [] r = "error" ->
              /\ post' = IF post.retries + 1 = POST_MAX_RETRIES THEN IdlePost
                         ELSE [post EXCEPT !.pc = "backoff", !.retries = @ + 1]
              /\ UNCHANGED <<postCount, posted>>
  /\ UNCHANGED <<clRoomId, clRoundId, sr, channel, setups, resolved, refused>>
  /\ UNCHANGED notClient

\* The retry loop's timer fires: the while test, then the next POST request.
postRetry ==
  /\ post.pc = "backoff"
  /\ postRequest(post)
  /\ UNCHANGED <<clRoomId, clRoundId, sr, channel, setups, resolved, refused>>
  /\ UNCHANGED notClient

NextClient ==
  \/ setRoomAndRound
  \/ getActiveRoundDone
  \/ authSigned
  \/ connectDone
  \/ sendAIMessage
  \/ messageSigned
  \/ postDone
  \/ postRetry

\* ------------------------------------------------------------------------
\* Inbound messages: SharedWebSocket.handleMessage (shared-websocket.ts:158-171)
\* and AgentClient.handleWebSocketMessage (part_000:841-898)
\* ------------------------------------------------------------------------

GM_ID == 51
InboundTypes == {"HEARTBEAT", "GM_MESSAGE", "AGENT_MESSAGE", "OBSERVATION",
                 "SYSTEM_NOTIFICATION"}

\* The envelopes other than AGENT_MESSAGE that arrive on the socket: text is
\* content.message of a GM_MESSAGE (empty or not).
InboundEnvelopes == [messageType : InboundTypes \ {"AGENT_MESSAGE"}, text : {"", "text"}]

\* The AGENT_MESSAGE envelopes that arrive on the socket.
InboundAgentMessages == {m \in InboundMessages : m.timestamp = 1}

NoEntry == [timestamp |-> 0, agentId |-> 0]
IdleInbound == [pc |-> "idle", messageType |-> "none", entry |-> NoEntry]
NoInbound == [messageType |-> "none", handler |-> "none", replied |-> FALSE]

\* The ws fields that an inbound message leaves alone.
wsButResponse == <<ws, heartbeatInterval, reconnectAttempt, isActive, reconnectTimer,
                   connectTimeouts, onCloseTimers, sockCount, clientIsActive, schedLog,
                   firstEnvelope, heartbeatSent, lastOp>>

\* SharedWebSocket.handleMessage's test: a HEARTBEAT is taken by
\* handleHeartbeat and the function returns; any other message goes to
\* config.handlers.onMessage.
passedToClient(messageType) == messageType # "HEARTBEAT"

\* AgentClient.handleWebSocketMessage(message) up to its first await. A
\* HEARTBEAT has its reply signed; a GM_MESSAGE with a message, and an
\* OBSERVATION of the current round, go to integration.processMessage;
\* nothing else awaits. (AGENT_MESSAGE goes to handleAgentMessage.)
handleWebSocketMessage(message, current) ==
  CASE message.messageType = "HEARTBEAT" ->
         [pc |-> "signing", messageType |-> "HEARTBEAT", entry |-> NoEntry]
    [] message.messageType = "GM_MESSAGE" /\ message.text # "" ->
         [pc |-> "generating", messageType |-> "GM_MESSAGE",
          entry |-> [timestamp |-> 1, agentId |-> GM_ID]]
    [] message.messageType = "OBSERVATION" /\ current ->
         [pc |-> "generating", messageType |-> "OBSERVATION", entry |-> NoEntry]
    [] OTHER -> IdleInbound

InitInb ==
  /\ inb = IdleInbound
  /\ inbLast = NoInbound

\* A 'message' event on the socket: handleMessage(data).
handleMessage ==
  /\ inb.pc = "idle"
  /\ \E message \in InboundEnvelopes, current \in BOOLEAN :
       IF passedToClient(message.messageType)
       THEN /\ inb' = handleWebSocketMessage(message, current)
            /\ inbLast' = [NoInbound EXCEPT !.messageType = message.messageType,
                                            !.handler = "client"]
            /\ UNCHANGED sinceHeartbeatResponse
       ELSE /\ sinceHeartbeatResponse' = 0
            /\ inbLast' = [NoInbound EXCEPT !.messageType = message.messageType,
                                            !.handler = "channel"]
            /\ UNCHANGED inb
  /\ UNCHANGED wsButResponse
  /\ UNCHANGED notInb

\* processMessage returns to handleWebSocketMessage or handleObservation:
\* with a response this.sendAIMessage is called.
inboundGenerated ==
  /\ inb.pc = "generating"
  /\ \E response \in BOOLEAN :
       inb' = IF response THEN [inb EXCEPT !.pc = "posting"] ELSE IdleInbound
  /\ inbLast' = NoInbound
  /\ UNCHANGED wsVars
  /\ UNCHANGED notInb

\* sendAIMessage returns (the reply is posted) or raises (the catch block
\* logs the error).
inboundPosted ==
  /\ inb.pc = "posting"
  /\ inb' = IdleInbound
  /\ \E ok \in BOOLEAN :
       inbLast' = [messageType |-> inb.messageType, handler |-> "client", replied |-> ok]
  /\ UNCHANGED wsVars
  /\ UNCHANGED notInb

NextInb ==
  \/ ownPvPStatusUpdate
  \/ handleMessage
  \/ inboundGenerated
  \/ inboundPosted
  \/ \E m \in InboundAgentMessages : handleAgentMessage(m)
  \/ \E k \in MessageIds : handlerGenerated(k)
  \/ \E k \in MessageIds : handlerPosted(k)

\* ------------------------------------------------------------------------
\* AgentClient.processSystemMessage and the effects it applies
\* (part_000:720-830). Nothing in the sources at hand calls it.
\* ------------------------------------------------------------------------

SystemMessages == [messageType : InboundTypes, agentId : {agentNumericId, otherAgentId},
                   text : {"", "text"}]
NoMessage == [messageType |-> "none", agentId |-> 0, text |-> ""]
NoSystemCall == [message |-> NoMessage, effect |-> "none", result |-> "none",
                 raised |-> FALSE, text |-> ""]

\* isAffectedByPvP(message): an agent message while SILENCE or DEAFEN is set.
isAffectedByPvP(effects, message) ==
  /\ message.messageType = "AGENT_MESSAGE"
  /\ "SILENCE" \in DOMAIN effects \/ "DEAFEN" \in DOMAIN effects

\* applyPoisonEffect(text, effect): `new RegExp(find, flags)` throws a
\* SyntaxError for a find that is no regular expression; otherwise the
\* matches in the text are replaced.
applyPoisonEffect(text, effect) ==
  IF effect.params = "(" THEN [raised |-> TRUE, text |-> text]
  ELSE [raised |-> FALSE, text |-> "poisoned"]

\* message.content?.text: the messages that carry a text.
hasText(message) ==
  message.messageType \in {"AGENT_MESSAGE", "SYSTEM_NOTIFICATION"} /\ message.text # ""

\* applyPvPEffects(message): the text is poisoned if POISON is set and the
\* message has a text; what applyPoisonEffect throws is not caught here.
applyPvPEffects(effects, message) ==
  IF "POISON" \in DOMAIN effects /\ hasText(message)
  THEN applyPoisonEffect(message.text, effects["POISON"])
  ELSE [raised |-> FALSE, text |-> message.text]

\* The switch of processSystemMessage: what it returns for a message, and
\* whether the message is pushed into the context first.
systemResult(message) ==
  CASE message.messageType = "HEARTBEAT" -> [result |-> "heartbeat", push |-> FALSE]
    [] message.messageType = "GM_MESSAGE" -> [result |-> "ai", push |-> TRUE]
    [] message.messageType = "AGENT_MESSAGE" /\ message.agentId # agentNumericId ->
         [result |-> "ai", push |-> TRUE]
    [] message.messageType = "OBSERVATION" -> [result |-> "ai", push |-> TRUE]
    [] OTHER -> [result |-> "null", push |-> FALSE]

InitSys ==
  /\ sysOut = NoSystemCall
  /\ sysCount = 0

\* processSystemMessage(message) up to its return: a blocked message yields
\* null; an exception of applyPvPEffects is caught and yields null; otherwise
\* the switch runs (processAIMessage is the return value of the AI cases).
processSystemMessage ==
  /\ sysCount < MaxSystem
  /\ sysCount' = sysCount + 1
  /\ \E message \in SystemMessages :
       LET modified == applyPvPEffects(activePvPEffects, message)
           poison == IF "POISON" \in DOMAIN activePvPEffects /\ hasText(message)
                     THEN activePvPEffects["POISON"].params ELSE "none"
           entry == [timestamp |-> Len(pushedClient) + 1,
                     agentId |-> IF message.messageType = "GM_MESSAGE" THEN GM_ID
                                 ELSE message.agentId]
       IN  IF isAffectedByPvP(activePvPEffects, message)
           THEN /\ sysOut' = [NoSystemCall EXCEPT !.message = message, !.result = "null"]
                /\ UNCHANGED <<clientContext, pushedClient>>
           ELSE IF modified.raised
           THEN /\ sysOut' = [message |-> message, effect |-> poison, result |-> "null",
                              raised |-> TRUE, text |-> ""]
                /\ UNCHANGED <<clientContext, pushedClient>>
           ELSE /\ sysOut' = [message |-> message, effect |-> poison,
                              result |-> systemResult(message).result,
                              raised |-> FALSE, text |-> modified.text]
                /\ IF systemResult(message).push
                   THEN /\ clientContext' = clientUpdateMessageContext(clientContext, entry)
                        /\ pushedClient' = Append(pushedClient, entry)
                   ELSE UNCHANGED <<clientContext, pushedClient>>
  /\ UNCHANGED <<messageContext, pushedIntegration>>
  /\ UNCHANGED notSys

NextSys ==
  \/ ownPvPStatusUpdate
  \/ processSystemMessage

NextOrch ==
  \/ initialize
  \/ setRoomAndRoundDone
  \/ verifyWake
  \/ channelChange
  \/ startDebate
  \/ openBroadcast
  \/ wake
  \/ processMessageDone
  \/ emitDone
  \/ stopDebate
  \/ closingBroadcastDone

Init == InitOrch /\ InitWS /\ InitRate /\ InitDedup /\ InitCtx /\ InitFx /\ InitClient /\ InitSign
        /\ InitInb /\ InitSys

SpecOrch == Init /\ [][NextOrch]_vars

SpecWS == Init /\ [][NextWS]_vars

SpecRate == Init /\ [][NextRate]_vars

SpecDedup == Init /\ [][NextDedup]_vars

SpecCtx == Init /\ [][NextCtx]_vars

SpecFx == Init /\ [][NextFx]_vars

SpecClient == Init /\ [][NextClient]_vars

SpecSign == Init /\ [][NextSign]_vars

SpecInb == Init /\ [][NextInb]_vars

SpecSys == Init /\ [][NextSys]_vars

\* ------------------------------------------------------------------------
\* DebateOrchestrator: properties
\* ------------------------------------------------------------------------

\* The Debaters among the runtimes handed to the constructor that stand before
\* position k.
DebatersBefore(k) == Cardinality({j \in 1..(k - 1) : Runtimes[j] # GM})
\* Debater p is the n-th Debater handed to the constructor.
IsNthDebater(p, n) ==
  \E k \in 1..Len(Runtimes) : Runtimes[k] = p /\ p # GM /\ DebatersBefore(k) = n - 1
\* The n-th participant of a full round: the Moderator, then the Debaters as
\* they were handed to the constructor.
IsNthOfRound(p, n) == IF n = 1 THEN p = GM ELSE IsNthDebater(p, n - 1)
\* The place of participant p in a full round.
PlaceInRound(p) == CHOOSE n \in 1..(NAgents + 1) : IsNthOfRound(p, n)

\* C1: in every iteration of the round loop the turns started so far are an
\* initial part of: the Moderator, then the Debaters in construction order.
\* So the Moderator's turn starts before any Debater's and the Debaters' order
\* is the same in every round, whatever fails and whenever stopDebate is called.
C1_TurnOrder == \A n \in 1..Len(turns) : IsNthOfRound(turns[n], n)

\* C1's case: an iteration in which a turn failed and stopDebate was called,
\* and every participant's turn has started.
C1_Witness == Len(turns) = NAgents + 1 /\ skipped /\ ~isRunning

\* C2 as stated: a round that ends while the debate is running has sent
\* exactly M, A, B, C, each participant once and none skipped.
C2_ExactRound ==
  (sd.pc = "sleep" /\ sd.cont = "loop" /\ isRunning) =>
    (Len(sends) = NAgents + 1 /\ \A n \in 1..Len(sends) : IsNthOfRound(sends[n], n))

\* C2 as amended: the sends of a round keep the order M, A, B, C with each
\* participant sending at most once, and a round that ends while the debate is
\* running, in which no turn ended without an emission, has sent exactly
\* M, A, B, C.
C2_RoundSends ==
  /\ \A a, b \in 1..Len(sends) : a < b => PlaceInRound(sends[a]) < PlaceInRound(sends[b])
  /\ (sd.pc = "sleep" /\ sd.cont = "loop" /\ isRunning /\ ~skipped) =>
       (Len(sends) = NAgents + 1 /\ \A n \in 1..Len(sends) : IsNthOfRound(sends[n], n))

\* C2's case: a full round has been sent and the round break is running.
C2_Witness ==
  sd.pc = "sleep" /\ sd.cont = "loop" /\ isRunning /\ ~skipped /\ Len(sends) = NAgents + 1

\* C9 as stated: startDebate has sent an opening broadcast or started a turn
\* only if an initialize() call completed successfully before.
C9_StartNeedsInitialize == (sd.opened > 0 \/ turns # <<>>) => everInitOk

\* C10 as stated: once stopDebate was called mid-round and the delay then in
\* flight has elapsed, no turn emits a message.
C10_NoEmitAfterStop == ~lateEmit

\* ------------------------------------------------------------------------
\* SharedWebSocket: properties
\* ------------------------------------------------------------------------

\* C3 as stated: the k-th delay handleDisconnect has scheduled since the last
\* successful open (k = 0, 1, ...) is min(1000 * 2^k, 30000) ms: 1s, 2s, 4s,
\* 8s, 16s, then 30s; after an open the count starts again at 1s.
C3_BackoffSequence ==
  \A n \in 1..Len(schedLog) :
    schedLog[n] = IF n <= 5 THEN 1000 * (2 ^ (n - 1)) ELSE 30000

\* C4 as stated: once close() has been called the channel starts no further
\* connection attempt, so its socket is never connecting or open again.
C4_NoAttemptAfterClose == ~isActive => ws.st \notin {"connecting", "open"}

\* ------------------------------------------------------------------------
\* DebateOrchestrator: stopDebate
\* ------------------------------------------------------------------------

\* C13: the first turn of startDebate's round loop starts when the third
\* opening broadcast has returned, in the same step that sets the phase to
\* discussion; a turn is in progress only after all three broadcasts; and when
\* an opening broadcast fails startDebate raises with no turn started.
C13_OpeningBeforeTurns ==
  /\ [](turns # <<>> => sd.opened = 3)
  /\ [](sd.pc = "threw" => (turns = <<>> /\ sd.opened < 3))
  /\ [][(sd.pc = "open" /\ sd'.pc # "open") =>
         \/ sd'.pc = "threw" /\ turns' = <<>>
         \/ /\ sd.opened = 2 /\ sd'.opened = 3
            /\ phase' = "discussion" /\ turns' = <<GM>>]_vars

\* C13's case: the Moderator's first turn has just started after the three
\* opening broadcasts.
C13_Witness ==
  /\ sd.pc = "sleep" /\ sd.cont = "retry" /\ sd.opened = 3
  /\ turns = <<GM>> /\ sends = <<>> /\ phase = "discussion"

\* C15: retryWithBackoff runs the operation at most maxRetries times; a
\* rate-limit failure with attempts left waits retryDelay * 2^i and runs the
\* operation again; any other failure, and a rate-limit failure of the last
\* attempt, is raised to the round loop without another run.
C15_RetryBudget ==
  /\ [](sd.attempt < maxRetries)
  /\ [][(sd.pc = "emit" /\ sd'.pc = "sleep" /\ failure' # "none") =>
         IF failure' = "rateLimited" /\ sd.attempt + 1 < 3
         THEN /\ sd'.cont = "retry" /\ sd'.attempt = sd.attempt + 1
              /\ sd'.ms = 10000 * (2 ^ sd.attempt)
         ELSE sd'.cont = "loop" /\ sd'.attempt = sd.attempt]_vars

\* C15's case: the third attempt was rate-limited as well and the failure was
\* raised to the round loop.
C15_Witness ==
  sd.pc = "sleep" /\ sd.cont = "loop" /\ sd.attempt = 2 /\ failure = "rateLimited"

\* C16 as stated: when generateText has raised inside the participant's
\* sendAIMessage, the turn is in an error path: retryWithBackoff's catch has
\* the error and waits for a retry or has raised it to the round loop's catch.
C16_GenerationFailureRaised ==
  failure = "sendAIMessage" => (sd.pc = "sleep" /\ sd.cont \in {"retry", "loop"})

\* C17: startDebate raises only before its round loop; an error a turn raises
\* to the round loop is followed by a pause of retryDelay, after which the
\* next iteration starts with the Moderator's turn if running is still set;
\* and startDebate returns only when running is not set.
C17_LoopSurvivesErrors ==
  /\ [](sd.pc = "threw" => sd.opened < 3)
  /\ [][(sd.pc = "emit" /\ sd'.pc = "sleep" /\ sd'.cont = "loop") =>
         (sd'.ms = retryDelay /\ failure' \in {"rateLimited", "error"})]_vars
  /\ [][(sd.pc = "sleep" /\ sd.cont = "loop" /\ sd' # sd) =>
         IF isRunning THEN sd'.pc = "sleep" /\ sd'.cont = "retry" /\ turns' = <<GM>>
         ELSE sd'.pc = "returned"]_vars
  /\ [][(sd.pc # "returned" /\ sd'.pc = "returned") => ~isRunning]_vars

\* C17's case: a turn other than the first raised an error to the round loop
\* while the debate is running, and the loop is in its pause.
C17_Witness ==
  /\ sd.pc = "sleep" /\ sd.cont = "loop" /\ sd.ms = retryDelay
  /\ failure = "error" /\ isRunning /\ Len(turns) > 1

\* C11 as stated: once stopDebate() has been called, close() has been called
\* on the client of the Moderator and of every Debater.
C11_AllClientsClosed ==
  stopCalls > 0 => closedClients = {GM} \cup {agents[n] : n \in 1..Len(agents)}

C5_GenerationsApart ==
  \A a, b \in 1..Len(genStarts) :
    a < b => genStarts[b] - genStarts[a] >= MIN_API_INTERVAL

\* The message ids of AGENT_MESSAGEs sent by another agent.
OtherIds == {MessageId(m) : m \in {x \in InboundMessages : x.agentId # agentNumericId}}
\* No handler of message id k is in flight.
Settled(k) == handlers[k].gen = 0 /\ handlers[k].post = 0

\* C6 as stated: an AGENT_MESSAGE of another agent that was delivered twice
\* and whose handling has ended has produced exactly one reply.
C6_ExactlyOneReply ==
  \A k \in OtherIds : (delivered[k] >= 2 /\ Settled(k)) => replies[k] = 1

\* C6 as amended: however often and however concurrently an AGENT_MESSAGE of
\* another agent with one (timestamp, agentId) key is delivered, at most one
\* generation call is made for it, all for its first delivery, and at most one
\* reply is sent: exactly one once the first delivery's generation has yielded
\* text and its post has succeeded, none otherwise.
C6_RepeatDropped ==
  \A k \in OtherIds :
    /\ genCalls[k] <= 1
    /\ replies[k] = IF outcome[k] = "replied" THEN 1 ELSE 0
    /\ (outcome[k] = "pending") = ~Settled(k)
    /\ (delivered[k] >= 1) = (outcome[k] # "none")

\* C6's case: a message delivered twice, answered once, nothing in flight.
C6_Witness ==
  \E k \in OtherIds : delivered[k] >= 2 /\ Settled(k) /\ replies[k] = 1 /\ genCalls[k] = 1

\* The last n entries of a sequence.
LastN(seq, n) == SubSeq(seq, Len(seq) - Min(Len(seq), n) + 1, Len(seq))

\* C7: each message context holds at most 8 entries, and they are the entries
\* pushed last, in the order they were pushed: a push onto a full context
\* drops exactly the oldest entry and puts the new one last.
C7_BoundedFifo ==
  /\ Len(messageContext) <= 8
  /\ Len(clientContext) <= 8
  /\ messageContext = LastN(pushedIntegration, 8)
  /\ clientContext = LastN(pushedClient, 8)

\* C7's case: more than 8 entries were pushed into both contexts.
C7_Witness ==
  /\ Len(pushedIntegration) > 8 /\ Len(messageContext) = 8
  /\ Len(pushedClient) > 8 /\ Len(clientContext) = 8

\* C8 as stated: each effect registry of a participant holds at most one
\* record per effect type.
C8_OneRecordPerType ==
  \A T \in EffectTypes :
    /\ Cardinality({k \in DOMAIN activePvPEffects : activePvPEffects[k].type = T}) <= 1
    /\ Cardinality({k \in DOMAIN integrationEffects :
                      integrationEffects[k].actionType = T}) <= 1

\* ------------------------------------------------------------------------
\* AgentClient: the room session
\* ------------------------------------------------------------------------

\* C14: every envelope a participant posts carries a room id and a round id
\* that a successful round resolution has returned; a channel is connected only
\* by a setRoomAndRound call whose round resolution has succeeded; and a
\* sendAIMessage call made while the room id or the round id is unset raises
\* without making a request.
C14_NoEnvelopeBeforeRound ==
  /\ [](\A e \in posted : e.roomId # 0 /\ e.roundId # 0 /\ e.roundId \in resolved)
  /\ [](channel.connects > 0 => resolved # {})
  /\ [][channel.connects' # channel.connects =>
         (sr.resolved /\ clRoundId \in resolved /\ channel'.roomId = clRoomId)]_vars
  /\ [][(post.pc = "idle" /\ (clRoomId = 0 \/ clRoundId = 0)) =>
         (post'.pc = "idle" /\ posted' = posted /\ postCount' = postCount)]_vars

\* C14's case: a sendAIMessage call was refused, and later the round was
\* resolved, the channel subscribed and an envelope posted.
C14_Witness ==
  refused /\ channel.subscribed /\ posted # {} /\ clRoundId \in resolved

\* ------------------------------------------------------------------------
\* SharedWebSocket: send, subscription and the connection timeout
\* ------------------------------------------------------------------------

\* The channel's state apart from its clock-driven timers' observers.
channelState == <<ws, heartbeatInterval, reconnectAttempt, isActive, sinceHeartbeatResponse,
                  reconnectTimer, connectTimeouts, onCloseTimers, sockCount>>

\* C18: a send() call writes its message exactly when the socket is open at
\* the call and changes nothing of the channel's state either way; and a
\* message is written by no other step: when the socket opens again only
\* SUBSCRIBE_ROOM is written, nothing that was dropped before.
C18_SendOnlyWhenOpen ==
  /\ [](lastOp.op = "send" =>
          lastOp.wrote = IF ws.st = "open" THEN <<"MESSAGE">> ELSE <<>>)
  /\ [](lastOp.op # "send" => lastOp.wrote \in {<<>>, <<"SUBSCRIBE_ROOM">>, <<"HEARTBEAT">>})
  /\ [][lastOp'.op = "send" => UNCHANGED channelState]_vars

\* C18's case: a message was handed to send() while the socket was closed and
\* a reconnect was pending, and it was dropped.
C18_Witness ==
  /\ lastOp.op = "send" /\ lastOp.wrote = <<>>
  /\ ws.st = "closed" /\ reconnectTimer # NoTimer

\* C19: whenever a socket of the channel is open, the first envelope written
\* to it was SUBSCRIBE_ROOM; the step in which a socket opens writes
\* SUBSCRIBE_ROOM and starts the heartbeat, and the heartbeat is started by no
\* other step.
C19_SubscribeFirst ==
  /\ [](ws.st = "open" => firstEnvelope = "SUBSCRIBE_ROOM")
  /\ [][(ws.st # "open" /\ ws'.st = "open") =>
         (lastOp'.wrote = <<"SUBSCRIBE_ROOM">> /\ heartbeatInterval' # NoTimer)]_vars
  /\ [][(heartbeatInterval = NoTimer /\ heartbeatInterval' # NoTimer) =>
         (ws'.st = "open" /\ firstEnvelope' = "SUBSCRIBE_ROOM")]_vars

\* C19's case: a reconnect's socket has just opened.
C19_Witness ==
  /\ ws.st = "open" /\ ws.id > 1 /\ lastOp.wrote = <<"SUBSCRIBE_ROOM">>
  /\ heartbeatInterval = Seconds(HEARTBEAT_INTERVAL)

\* C20 as stated: when the 5s timeout of a connection attempt fires and the
\* attempt's promise is still pending (its socket has not opened, and no error
\* has failed it), the attempt is rejected with a timeout error and its socket
\* is not left connecting or open.
C20_ConnectTimeout ==
  (lastOp.op = "timeout" /\ lastOp.was = "pending") =>
    /\ lastOp.rejected
    /\ ws.id = lastOp.attempt => ws.st \notin {"connecting", "open"}

\* ------------------------------------------------------------------------
\* SharedWebSocket: the heartbeat
\* ------------------------------------------------------------------------

\* C21: a heartbeat tick on an open socket writes exactly one HEARTBEAT and
\* leaves the socket alone, unless more than 30s have passed since the last
\* inbound heartbeat response: then it closes the socket and writes nothing.
\* HEARTBEAT is written by no other step, the next tick is 30s later, and when
\* a closing socket of an active channel has closed, a reconnect is scheduled.
C21_Heartbeat ==
  /\ [][(ws.st = "open" /\ lastOp'.op = "heartbeat") =>
         IF sinceHeartbeatResponse > Seconds(HEARTBEAT_TIMEOUT)
         THEN ws' = [ws EXCEPT !.st = "closing"] /\ lastOp'.wrote = <<>>
         ELSE ws' = ws /\ lastOp'.wrote = <<"HEARTBEAT">>]_vars
  /\ [](lastOp.wrote = <<"HEARTBEAT">> => lastOp.op = "heartbeat")
  /\ [](lastOp.op = "heartbeat" => heartbeatInterval = Seconds(HEARTBEAT_INTERVAL))
  /\ [][(ws.st = "closing" /\ ws'.st = "closed" /\ isActive) =>
         reconnectTimer' = Seconds(reconnectDelay(reconnectAttempt))]_vars

\* C21's case: a tick found the last heartbeat response of an active channel's
\* open socket more than 30s old and closed the socket.
C21_Witness ==
  /\ lastOp.op = "heartbeat" /\ lastOp.wrote = <<>>
  /\ ws.st = "closing" /\ isActive
  /\ sinceHeartbeatResponse > Seconds(HEARTBEAT_TIMEOUT)

\* ------------------------------------------------------------------------
\* signMessage: canonical string and signature
\* ------------------------------------------------------------------------

\* The string signed is in canonical form: keys in lexicographic order.
IsCanonical(str) ==
  \A a, b \in 1..Len(str) : a < b => KeyRank(str[a][1]) < KeyRank(str[b][1])

\* The timestamp in the string signed.
SignedTimestamp(str) == (CHOOSE e \in {str[n] : n \in 1..Len(str)} : e[1] = "timestamp")[2]

\* C22: two payloads with the same keys and values, the timestamp among them,
\* assembled in any two key orders, are signed as the same canonical string,
\* and with the same key the signatures are equal; a payload without a
\* timestamp is signed with the time of the call filled in (so two such
\* payloads agree when signed at the same time); every other field is signed
\* as given.
C22_CanonicalSignature ==
  /\ \A n \in {1, 2} : signOut[n].st = "signed" =>
        /\ IsCanonical(signOut[n].messageString)
        /\ \A f \in FieldSet(signIn[n]) : <<f.key, f.value>> \in
              {signOut[n].messageString[i] : i \in 1..Len(signOut[n].messageString)}
        /\ Len(signOut[n].messageString) =
              Len(signIn[n]) + (IF HasKey(signIn[n], "timestamp") THEN 0 ELSE 1)
        /\ ~HasKey(signIn[n], "timestamp") =>
              SignedTimestamp(signOut[n].messageString) = signOut[n].at
  /\ (signOut[1].st = "signed" /\ signOut[2].st = "signed"
        /\ (HasKey(signIn[1], "timestamp") \/ signOut[1].at = signOut[2].at)) =>
        /\ signOut[1].messageString = signOut[2].messageString
        /\ signOut[1].privateKey = signOut[2].privateKey =>
              signOut[1].signature = signOut[2].signature

\* C22's case: a payload of three fields with a timestamp, assembled in two
\* different key orders, was signed twice with the same key at different
\* times.
C22_Witness ==
  /\ signOut[1].st = "signed" /\ signOut[2].st = "signed"
  /\ Len(signIn[1]) = 3 /\ signIn[1] # signIn[2]
  /\ signIn[1] # sortObjectKeys(signIn[1]) /\ signIn[2] # sortObjectKeys(signIn[2])
  /\ signOut[1].privateKey = signOut[2].privateKey /\ signOut[1].at # signOut[2].at
  /\ signOut[1].signature = signOut[2].signature

\* A payload without a timestamp was signed.
C22_WitnessFilled ==
  /\ signOut[1].st = "signed" /\ ~HasKey(signIn[1], "timestamp")
  /\ Len(signIn[1]) = 2 /\ Len(signOut[1].messageString) = 3

\* ------------------------------------------------------------------------
\* AgentClient.sendAIMessage: the POST retry loop
\* ------------------------------------------------------------------------

\* C23 as stated: a sendAIMessage call makes at most 3 POST requests, whatever
\* the backend answers.
C23_BoundedPosts == post.attempts <= POST_MAX_RETRIES

\* ------------------------------------------------------------------------
\* Inbound dispatch: heartbeat replies, effects and the message context
\* ------------------------------------------------------------------------

\* C24 as stated: when a HEARTBEAT has arrived on the participant's channel,
\* the participant's handler has it and is signing the HEARTBEAT reply it
\* will send.
C24_HeartbeatReply ==
  inbLast.messageType = "HEARTBEAT" =>
    (inbLast.handler = "client" /\ inb.pc = "signing")

\* An AGENT_MESSAGE is delivered to the participant in this step.
AgentMessageDelivered == \E k \in MessageIds : delivered'[k] # delivered[k]

\* C25 as stated: an AGENT_MESSAGE delivered while SILENCE or DEAFEN is
\* active is dropped before dispatch: it is not recorded as processed, no
\* generation call is made for it and no handler is left waiting to reply.
C25_BlockedNotDispatched ==
  [][(AgentMessageDelivered
        /\ ("SILENCE" \in DOMAIN activePvPEffects \/ "DEAFEN" \in DOMAIN activePvPEffects)) =>
      (processedMessages' = processedMessages /\ genCalls' = genCalls
         /\ handlers' = handlers)]_vars

\* The entry is in one of the participant's message contexts.
InContext(entry) ==
  \/ \E n \in 1..Len(clientContext) : clientContext[n] = entry
  \/ \E n \in 1..Len(messageContext) : messageContext[n] = entry

\* C26 as stated: while the generation call for an inbound GM_MESSAGE, or for
\* an inbound AGENT_MESSAGE of another agent, is in flight, the message's
\* entry is in the participant's message context.
C26_ContextBeforeGeneration ==
  /\ (inb.pc = "generating" /\ inb.messageType = "GM_MESSAGE") => InContext(inb.entry)
  /\ \A m \in InboundAgentMessages :
       handlers[MessageId(m)].gen > 0 =>
         InContext([timestamp |-> m.timestamp, agentId |-> m.agentId])

\* C27 as stated: with a POISON effect whose find pattern is malformed,
\* nothing is raised while a text message is processed, the text is handed on
\* unchanged and the message gets what its type gets without the effect.
C27_PoisonNeverRaises ==
  sysOut.effect = "(" =>
    /\ ~sysOut.raised
    /\ sysOut.text = sysOut.message.text
    /\ sysOut.result = systemResult(sysOut.message).result

\* ------------------------------------------------------------------------
\* AgentClient.setRoomAndRound: failures
\* ------------------------------------------------------------------------

\* C28 as stated: when a setRoomAndRound call of a participant that had a
\* round resolved raises because round resolution or signing failed, the
\* channel is the one it had (none was built or connected) and roundId is what
\* it was when the call was made.
C28_FailedSetupChangesNothing ==
  [][(sr.pc \in {"resolving", "signing"} /\ sr'.pc = "idle" /\ sr.roundBefore # 0) =>
      (channel' = channel /\ clRoundId' = sr.roundBefore)]_vars

\* ------------------------------------------------------------------------
\* DebateOrchestrator.initialize: connectivity verification
\* ------------------------------------------------------------------------

\* The steps initialize() has left at most: one per setRoomAndRound call
\* still to return, then one per poll.
StepsLeft(f) ==
  CASE f.pc = "gmSet" -> verifyMaxRetries + Len(agents) + 1
    [] f.pc = "agSet" -> verifyMaxRetries + Len(agents) + 1 - f.k
    [] f.pc = "verifyWait" -> verifyMaxRetries - f.retries
    [] OTHER -> 0

\* C29: every step of initialize() brings it nearer to its end; the
\* verification waits 2s after a poll, at most 10 polls are made, a poll
\* succeeds exactly when the Moderator's and every Debater's channel is
\* connected at that moment, and when the 10th poll has failed the call
\* raises after its wait.
C29_VerifyConnections ==
  /\ [][(ini' # ini /\ ini.pc \in {"gmSet", "agSet", "verifyWait"}) =>
         StepsLeft(ini') < StepsLeft(ini)]_vars
  /\ [](ini.pc = "verifyWait" =>
          (ini.retries < verifyMaxRetries /\ ini.ms = verifyRetryDelay))
  /\ [][(ini.pc = "verifyWait" /\ ini' # ini) =>
         ini'.pc = IF ini.retries + 1 = verifyMaxRetries THEN "threw"
                   ELSE IF connected = Participants THEN "ok" ELSE "verifyWait"]_vars
  /\ [][(ini.pc = "agSet" /\ ini'.pc \in {"ok", "verifyWait"}) =>
         (ini'.pc = "ok" <=> connected \cup {agents[ini.k]} = Participants)]_vars

\* C29's case: the verification waits after its 10th poll while every
\* Debater's channel is connected but not the Moderator's.
C29_Witness ==
  /\ ini.pc = "verifyWait" /\ ini.retries = verifyMaxRetries - 1
  /\ connected = Participants \ {GM}

\* ------------------------------------------------------------------------
\* DebateOrchestrator: the phase
\* ------------------------------------------------------------------------

\* The place of a phase in Init -> Discussion -> Voting -> End.
PhaseRank(ph) ==
  CASE ph = "init" -> 0 [] ph = "discussion" -> 1 [] ph = "voting" -> 2 [] ph = "end" -> 3

\* C30 as stated: the phase is never voting and never moves backwards along
\* Init -> Discussion -> End; in particular it stays End once it is End.
C30_PhaseMonotonic ==
  /\ [](phase # "voting")
  /\ [][PhaseRank(phase') >= PhaseRank(phase)]_vars

\* ------------------------------------------------------------------------
\* DebateOrchestrator: stopDebate() during a startDebate() call
\* ------------------------------------------------------------------------

\* A startDebate() call has passed its guard and has not returned or raised.
startInProgress == sd.pc \in {"open", "sleep", "gen1", "gen2", "emit"}

\* C31 as stated: once stopDebate() has run during a startDebate() call
\* (startDebate had set the phase to init, so within the call only a stop
\* makes it end), no later step of that call sets the running flag again or
\* moves the phase away from End, wherever the stop fell, the await of an
\* opening broadcast included.
C31_StopIsFinal ==
  [][(startInProgress /\ phase = "end" /\ ~isRunning) =>
       (phase' = "end" /\ ~isRunning')]_vars

\* ------------------------------------------------------------------------
\* SharedWebSocket: the connection timeout and the socket it closes
\* ------------------------------------------------------------------------

\* C32 as stated: a connection timeout that closes a socket closes the socket
\* its own connect() call created; the timeout of an earlier attempt does
\* not close the connecting socket of a later one.
C32_TimeoutClosesOwnSocket ==
  [][(lastOp'.op = "timeout" /\ ws' # ws) => lastOp'.attempt = ws.id]_vars

\* ------------------------------------------------------------------------
\* SharedWebSocket: the first heartbeat tick of a connection
\* ------------------------------------------------------------------------

\* C33 as stated: a heartbeat tick closes the open socket for a heartbeat
\* timeout only after a HEARTBEAT has been written to that socket; time that
\* passed before the socket opened does not count at its first tick.
C33_HeartbeatBeforeTimeout ==
  [][(lastOp'.op = "heartbeat" /\ ws.st = "open" /\ ws'.st = "closing") =>
       heartbeatSent]_vars

\* ------------------------------------------------------------------------
\* SharedWebSocket and AgentClient: the reconnects a disconnect schedules
\* ------------------------------------------------------------------------

\* The timers pending that will call connect(): the channel's reconnect timer
\* and the timers of AgentClient's onClose handler.
pendingReconnects ==
  (IF reconnectTimer = NoTimer THEN 0 ELSE 1) + Len(onCloseTimers)

\* C34 as stated: at most one reconnect is pending for the channel at any
\* time, no connect() call replaces a socket that is open, and none is made
\* once AgentClient.stop() has run.
C34_OneReconnect ==
  /\ [](pendingReconnects <= 1)
  /\ [][ws.st = "open" => sockCount' = sockCount]_vars
  /\ [][~clientIsActive => sockCount' = sockCount]_vars

====
